---- MODULE Spec2Model ----
(***************************************************************************)
(* A model of the jalm compiler front end (jalmc): the event-based,        *)
(* error-recovering parser of jalm_parser, the green/red tree of           *)
(* jalm_syntax, the type checker of jalm_typecheck and the formatter of    *)
(* jalm_formatter.                                                         *)
(*                                                                         *)
(* A source text is represented by the sequence of its lexemes, each a     *)
(* record [kind, text]; kinds carry the names of the SyntaxKind enum.      *)
(* The parser is a state machine: one frame per active call of a parse     *)
(* function, one action per straight-line piece of a function between two  *)
(* calls or loop heads.  Marker and token positions are 0-based as in the  *)
(* Rust code; the element at 0-based index i of a sequence s is s[i + 1].  *)
(***************************************************************************)
EXTENDS Integers, Sequences, FiniteSets, TLC

VARIABLES
  source,       \* the text handed to the pipeline (lexeme pieces)
  run,          \* 1: parse of the source, 2: parse of the formatter's output
  pc,           \* position of the pipeline
  p,            \* struct Parser {tokens, pos, events, errors}
  stack,        \* call stack of the parse functions, innermost last
  ret,          \* CompletedMarker returned by the last parse function
  parsed,       \* struct Parse {green, errors} of the last finished parse
  diagnostics,  \* CheckResult.diagnostics of jalm_typecheck::check(source)
  effect_diagnostics,  \* CheckResult.diagnostics of jalm_effectcheck::check(source)
  wasm,        \* the result of compile_to_wasm(source)
  fmt1,         \* format_source(source)
  fmt2,         \* format_source(text of fmt1), when fmt1 is Ok
  build,        \* the build of jalm_runtime: target, overflow checks, heap
  NEXT,         \* static NEXT: AtomicUsize
  pages,        \* memory_size(0) on wasm32
  memory,       \* the bytes of the heap, by address
  regions,      \* the allocations that succeeded: pointer and size asked for
  last,         \* the last call of the runtime and the state it found
  calls,        \* the number of calls made
  callers       \* the callers inside jalm_alloc: position and locals of each

compiler ==
  <<source, run, pc, p, stack, ret, parsed, diagnostics, effect_diagnostics, wasm, fmt1, fmt2>>

runtime == <<build, NEXT, pages, memory, regions, last, calls, callers>>

vars == <<compiler, runtime>>

\* ------------------------------------------------------------------------
\* jalm_syntax: kinds, tokens, lexer

IsTrivia(kind) == kind \in {"Whitespace", "Comment"}

IsLiteral(kind) == kind \in {"Int", "Float", "String", "Bytes", "KwTrue", "KwFalse"}

K(kind, text) == [kind |-> kind, text |-> text]

RECURSIVE JoinRange(_, _, _)
JoinRange(src, lo, hi) ==
  IF lo > hi THEN ""
  ELSE IF lo = hi THEN src[lo]
  ELSE LET mid == (lo + hi) \div 2
       IN JoinRange(src, lo, mid) \o JoinRange(src, mid + 1, hi)

\* The text made of the words.
Join(src) == JoinRange(src, 1, Len(src))

\* The text made of the lexemes.
Concat(lexemes) == Join([i \in 1..Len(lexemes) |-> lexemes[i].text])

\* The lexer's longest match of [ \t\r\n]+ : adjacent whitespace pieces of a
\* text are one Whitespace token.
MergeWhitespace(pieces) ==
  LET n == Len(pieces)
      IsWs(i) == pieces[i].kind = "Whitespace"
      First(i) == ~(IsWs(i) /\ i > 1 /\ IsWs(i - 1))
      starts == SelectSeq([i \in 1..n |-> i], First)
      Last(k) == IF k < Len(starts) THEN starts[k + 1] - 1 ELSE n
  IN [k \in 1..Len(starts) |->
        K(pieces[starts[k]].kind, Concat(SubSeq(pieces, starts[k], Last(k))))]

\* Token.span: the byte range of each lexeme in the text.
WithSpans(lexemes) ==
  [i \in 1..Len(lexemes) |->
     LET off == Len(Concat(SubSeq(lexemes, 1, i - 1)))
     IN [kind |-> lexemes[i].kind, text |-> lexemes[i].text,
         start |-> off, end |-> off + Len(lexemes[i].text)]]

\* The words of the model's texts that the rule [A-Za-z_][A-Za-z0-9_]* lexes
\* as Ident, those that [0-9]([0-9_])* lexes as Int, those of [ \t\r\n]+ and
\* those of the block comment rule.
IdentWords == {"a", "b", "c", "f", "g", "x", "y", "foo", "bar", "baz", "add", "path",
               "read", "fs", "crate", "User", "id", "Opt", "Some", "None", "i64", "bool",
               "i32", "string", "main", "nope", "io", "net", "http", "time", "rand",
               "log", "ffi", "dfs", "serve"}
IntWords == {"0", "1", "2", "3"}
WhitespaceWords == {" ", "  ", "\n", "\n  "}
CommentWords == {"/*c*/", "/*fs::*/", "/*net::net::*/"}

\* enum LexKind with lex_kind_to_syntax: the #[token] rules the texts use
FixedTokens ==
  [mod |-> "KwMod", use |-> "KwUse", fn |-> "KwFn", async |-> "KwAsync",
   struct |-> "KwStruct", enum |-> "KwEnum", match |-> "KwMatch", if |-> "KwIf",
   else |-> "KwElse", for |-> "KwFor", return |-> "KwReturn", let |-> "KwLet",
   mut |-> "KwMut", true |-> "KwTrue", false |-> "KwFalse", as |-> "KwAs",
   pub |-> "KwPub"]
  @@ ("_" :> "Underscore") @@ ("(" :> "LParen") @@ (")" :> "RParen") @@ ("{" :> "LBrace") @@ ("}" :> "RBrace")
  @@ ("," :> "Comma") @@ (";" :> "Semi") @@ (":" :> "Colon") @@ ("." :> "Dot")
  @@ ("::" :> "ColonColon") @@ ("->" :> "Arrow") @@ ("=>" :> "FatArrow")
  @@ ("?" :> "Question") @@ ("!" :> "Bang") @@ ("+" :> "Plus") @@ ("-" :> "Minus")
  @@ ("*" :> "Star") @@ ("/" :> "Slash") @@ ("%" :> "Percent") @@ ("=" :> "Eq")
  @@ ("==" :> "EqEq") @@ ("!=" :> "Neq") @@ ("<=" :> "Lte") @@ ("<" :> "Lt")
  @@ (">=" :> "Gte") @@ (">" :> "Gt") @@ ("&&" :> "AndAnd") @@ ("||" :> "OrOr")

\* The kind the lexer gives to a word: the rule that matches it, ErrorToken
\* (Err(()) of logos) when none does.
LexKind(text) ==
  IF text \in WhitespaceWords THEN "Whitespace"
  ELSE IF text \in CommentWords THEN "Comment"
  ELSE IF text \in DOMAIN FixedTokens THEN FixedTokens[text]
  ELSE IF text \in IntWords THEN "Int"
  ELSE IF text \in IdentWords THEN "Ident"
  ELSE "ErrorToken"

Lexemes(src) == [i \in 1..Len(src) |-> K(LexKind(src[i]), src[i])]

\* lex(source): the token stream with byte spans.  A source is the sequence
\* of its words.
Lex(src) == WithSpans(MergeWhitespace(Lexemes(src)))

SourceLen(src) == Len(Join(src))

\* Words that the longest match of the lexer may join with a neighbour: two
\* adjacent identifier-like words, or two adjacent words of operator
\* characters ("=" and "=" are "==", "/" and "*" open a comment).
WordLike(w) ==
  w \in IdentWords \cup IntWords
  \/ w \in {"mod", "use", "fn", "async", "struct", "enum", "match", "if", "else", "for",
            "return", "let", "mut", "true", "false", "as", "pub", "_"}

Sticky(w) ==
  w \in {":", "::", "-", "->", "=", "==", "=>", "!", "!=", "<", "<=", ">", ">=", "&&",
         "||", "+", "*", "/", "%", ".", "?"} \cup CommentWords

\* The words are the tokens the lexer finds in their text (whitespace runs
\* apart, which Lex joins).
Lexable(src) ==
  \A i \in 1..(Len(src) - 1) :
    /\ ~(WordLike(src[i]) /\ WordLike(src[i + 1]))
    /\ ~(Sticky(src[i]) /\ Sticky(src[i + 1]))
    /\ ~(src[i] \in WhitespaceWords /\ src[i + 1] \in WhitespaceWords)

\* ------------------------------------------------------------------------
\* jalm_parser: the Parser struct and its primitives

StartNode(kind) == [tag |-> "StartNode", kind |-> kind, text |-> ""]
FinishNode == [tag |-> "FinishNode", kind |-> "", text |-> ""]
TokenEv(kind, text) == [tag |-> "Token", kind |-> kind, text |-> text]

\* parse(): the tokens of the source followed by the synthetic Eof token.
ParseTokens(src) ==
  LET end == SourceLen(src)
  IN Append(Lex(src), [kind |-> "Eof", text |-> "", start |-> end, end |-> end])

NewParser(tokens) == [tokens |-> tokens, pos |-> 0, events |-> <<>>, errors |-> <<>>]

Current(q) == IF q.pos < Len(q.tokens) THEN q.tokens[q.pos + 1].kind ELSE "Eof"

At(q, kind) == Current(q) = kind

Nth(q, n) == IF q.pos + n < Len(q.tokens) THEN q.tokens[q.pos + n + 1].kind ELSE "Eof"

\* bump_any with a fault: a trivia token is passed over without its event.
BumpAnyDroppingTrivia(q) ==
  IF q.pos < Len(q.tokens)
  THEN LET token == q.tokens[q.pos + 1]
       IN [q EXCEPT !.events = IF token.kind # "Eof" /\ ~IsTrivia(token.kind)
                               THEN Append(@, TokenEv(token.kind, token.text))
                               ELSE @,
                    !.pos = @ + 1]
  ELSE q

BumpAny(q) ==
  IF q.pos < Len(q.tokens)
  THEN LET token == q.tokens[q.pos + 1]
       IN [q EXCEPT !.events = IF token.kind # "Eof"
                               THEN Append(@, TokenEv(token.kind, token.text))
                               ELSE @,
                    !.pos = @ + 1]
  ELSE q

ErrorHere(q, message) ==
  LET span == IF q.pos < Len(q.tokens)
              THEN [start |-> q.tokens[q.pos + 1].start, end |-> q.tokens[q.pos + 1].end]
              ELSE [start |-> 0, end |-> 0]
  IN [q EXCEPT !.errors = Append(@, [message |-> message, start |-> span.start,
                                     end |-> span.end])]

\* start(): the marker is the position of the pushed tombstone, MarkerOf(q).
MarkerOf(q) == Len(q.events)

Start(q) == [q EXCEPT !.events = Append(@, StartNode("Tomestone"))]

\* complete(marker, kind); the CompletedMarker it returns has the marker's pos.
Complete(q, m, kind) ==
  [q EXCEPT !.events = Append([@ EXCEPT ![m + 1] = StartNode(kind)], FinishNode)]

\* precede with a fault: the placeholder is pushed at the end, as start()
\* pushes it, and not inserted before the completed node.
PrecedePushing(q, cm) == [q EXCEPT !.events = Append(@, StartNode("Tomestone"))]

\* CompletedMarker::precede; the Marker it returns has the completed marker's pos.
Precede(q, cm) ==
  [q EXCEPT !.events = SubSeq(@, 1, cm) \o <<StartNode("Tomestone")>>
                         \o SubSeq(@, cm + 1, Len(@))]

RECURSIVE EatTrivia(_)
EatTrivia(q) == IF IsTrivia(Current(q)) THEN EatTrivia(BumpAny(q)) ELSE q

\* The recovery `if !self.at(Eof) { self.bump_any() }` with a fault: the
\* offending token is left where it is.
BumpNever(q) == q

\* if !self.at(SyntaxKind::Eof) { self.bump_any(); }
BumpUnlessEof(q) == IF ~At(q, "Eof") THEN BumpAny(q) ELSE q

Expect(q, kind) ==
  LET q1 == EatTrivia(q)
  IN IF At(q1, kind) THEN BumpAny(q1)
     ELSE LET q2 == ErrorHere(q1, "expected " \o kind)
              m == MarkerOf(q2)
          IN Complete(BumpUnlessEof(Start(q2)), m, "Error")

\* parse_ident; its CompletedMarker is IdentMarker(q).
IdentMarker(q) == MarkerOf(EatTrivia(q))

ParseIdent(q) ==
  LET q1 == EatTrivia(q)
      m == MarkerOf(q1)
      q2 == Start(q1)
      q3 == IF At(q2, "Ident") THEN BumpAny(q2)
            ELSE BumpUnlessEof(ErrorHere(q2, "expected identifier"))
  IN Complete(q3, m, "IdentNode")

\* parse_literal; its CompletedMarker is MarkerOf(q).
ParseLiteral(q) ==
  LET m == MarkerOf(q)
      q2 == Start(q)
      q3 == IF IsLiteral(Current(q2)) THEN BumpAny(q2)
            ELSE BumpUnlessEof(ErrorHere(q2, "expected literal"))
  IN Complete(q3, m, "LiteralNode")

ParsePattern(q) ==
  LET q1 == EatTrivia(q)
      m == MarkerOf(q1)
      q2 == Start(q1)
      q3 == IF At(q2, "Ident") THEN ParseIdent(q2)
            ELSE IF IsLiteral(Current(q2)) THEN ParseLiteral(q2)
            ELSE IF At(q2, "Underscore") THEN BumpAny(q2)
            ELSE BumpAny(ErrorHere(q2, "expected pattern"))
  IN Complete(q3, m, "Pattern")

RECURSIVE PathTail(_)
\* while self.at(ColonColon) { bump_any(); parse_ident(); }
PathTail(q) == IF At(q, "ColonColon") THEN PathTail(ParseIdent(BumpAny(q))) ELSE q

ParseType(q) ==
  LET q1 == EatTrivia(q)
      m == MarkerOf(q1)
      q2 == Start(q1)
      q3 == IF At(q2, "Ident") THEN PathTail(ParseIdent(q2))
            ELSE BumpAny(ErrorHere(q2, "expected type"))
  IN Complete(q3, m, "Type")

ParseUsePath(q) ==
  LET q1 == EatTrivia(q)
      m == MarkerOf(q1)
  IN Complete(PathTail(ParseIdent(Start(q1))), m, "UsePath")

ParseModuleDecl(q) ==
  LET m == MarkerOf(q)
  IN Complete(Expect(ParseIdent(Expect(Start(q), "KwMod")), "Semi"), m, "ModuleDecl")

ParseUseDecl(q) ==
  LET m == MarkerOf(q)
      q1 == EatTrivia(ParseUsePath(Expect(Start(q), "KwUse")))
      q2 == IF At(q1, "KwAs") THEN ParseIdent(BumpAny(q1)) ELSE q1
  IN Complete(Expect(q2, "Semi"), m, "UseDecl")

ParseParam(q) ==
  LET m == MarkerOf(q)
      q1 == Start(q)
      q2 == IF At(q1, "KwMut") THEN BumpAny(q1) ELSE q1
  IN Complete(ParseType(Expect(ParseIdent(q2), "Colon")), m, "Param")

InfixOps == {"OrOr", "AndAnd", "EqEq", "Neq", "Lt", "Lte", "Gt", "Gte",
             "Plus", "Minus", "Star", "Slash", "Percent"}

\* infix_binding_power of the parser: <<l_bp, r_bp>>, or <<>> for None.
InfixBindingPower(kind) ==
  CASE kind = "OrOr" -> <<1, 2>>
    [] kind = "AndAnd" -> <<3, 4>>
    [] kind \in {"EqEq", "Neq"} -> <<5, 6>>
    [] kind \in {"Lt", "Lte", "Gt", "Gte"} -> <<7, 8>>
    [] kind \in {"Plus", "Minus"} -> <<9, 10>>
    [] kind \in {"Star", "Slash", "Percent"} -> <<11, 12>>
    [] OTHER -> <<>>

\* ------------------------------------------------------------------------
\* jalm_parser: the parse functions that call one another or loop, as frames.
\* A frame holds the function, the place in it, its markers (m, m2), the
\* completed marker lhs of the expression loops, the binding power argument
\* bp, and the token positions at which the latest turn of the frame's loop
\* (it) and the turn before it (prev) began, -1 when there is none; it2 and
\* prev2 are those of the loop nested in it (a variant's types, a call's
\* arguments).

Frame(fn, at) ==
  [fn |-> fn, pc |-> at, m |-> 0, m2 |-> 0, lhs |-> 0, bp |-> 0,
   it |-> -1, prev |-> -1, it2 |-> -1, prev2 |-> -1]

Top == stack[Len(stack)]

Running(fn, at) == pc = "parsing" /\ stack # <<>> /\ Top.fn = fn /\ Top.pc = at

Rest == <<runtime, source, run, pc, parsed, diagnostics, effect_diagnostics, wasm, fmt1, fmt2>>

\* The function goes on at the place of frame fr with parser state q.
Step(q, fr) ==
  /\ p' = q
  /\ stack' = [stack EXCEPT ![Len(stack)] = fr]
  /\ UNCHANGED <<ret, Rest>>

\* The function calls callee; it goes on at the place of frame fr afterwards.
Call(q, fr, callee) ==
  /\ p' = q
  /\ stack' = Append([stack EXCEPT ![Len(stack)] = fr], callee)
  /\ UNCHANGED <<ret, Rest>>

\* `return callee()`: the callee's result is the function's result.
TailCall(q, callee) ==
  /\ p' = q
  /\ stack' = [stack EXCEPT ![Len(stack)] = callee]
  /\ UNCHANGED <<ret, Rest>>

\* The function returns the completed marker cm.
Return(q, cm) ==
  /\ p' = q
  /\ stack' = SubSeq(stack, 1, Len(stack) - 1)
  /\ ret' = cm
  /\ UNCHANGED Rest

\* parse_root, lines 71-72
RootEntry ==
  /\ Running("parse_root", "entry")
  /\ Step(EatTrivia(Start(p)), [Top EXCEPT !.m = MarkerOf(p), !.pc = "loop"])

\* parse_root, lines 73-98 and 101: the loop test and one item, or the end
RootLoop ==
  /\ Running("parse_root", "loop")
  /\ LET after == [Top EXCEPT !.pc = "after", !.prev = Top.it, !.it = p.pos]
     IN IF At(p, "Eof") THEN Return(Complete(p, Top.m, "Root"), ret)
        ELSE IF At(p, "KwMod") THEN Step(ParseModuleDecl(p), after)
        ELSE IF At(p, "KwUse") THEN Step(ParseUseDecl(p), after)
        ELSE IF At(p, "KwPub") THEN
          IF Nth(p, 1) \in {"KwFn", "KwAsync"}
          THEN Call(p, after, Frame("parse_fn_decl", "entry"))
          ELSE IF Nth(p, 1) \in {"KwStruct", "KwEnum"}
          THEN Call(p, after, Frame("parse_struct_or_enum", "entry"))
          ELSE Step(BumpAny(ErrorHere(p,
                      "expected 'fn', 'struct', or 'enum' after 'pub'")), after)
        ELSE IF At(p, "KwAsync") \/ At(p, "KwFn")
        THEN Call(p, after, Frame("parse_fn_decl", "entry"))
        ELSE IF At(p, "KwStruct") \/ At(p, "KwEnum")
        THEN Call(p, after, Frame("parse_struct_or_enum", "entry"))
        ELSE LET m == MarkerOf(p)
                 q == BumpUnlessEof(ErrorHere(Start(p), "expected item"))
             IN Step(Complete(q, m, "Error"), after)

\* parse_root, line 99
RootAfter ==
  /\ Running("parse_root", "after")
  /\ Step(EatTrivia(p), [Top EXCEPT !.pc = "loop"])

\* parse_fn_decl, lines 137-149
FnEntry ==
  /\ Running("parse_fn_decl", "entry")
  /\ LET m == MarkerOf(p)
         q1 == Start(p)
         q2 == IF At(q1, "KwPub") THEN BumpAny(q1) ELSE q1
         q3 == IF At(q2, "KwAsync") THEN BumpAny(q2) ELSE q2
         q4 == Expect(ParseIdent(Expect(q3, "KwFn")), "LParen")
         params == MarkerOf(q4)
         q5 == EatTrivia(Start(q4))
     IN Step(q5, [Top EXCEPT !.m = m, !.m2 = params,
                    !.pc = IF ~At(q5, "RParen") THEN "params" ELSE "params_end"])

\* parse_fn_decl, lines 150-162: one turn of the parameter loop
FnParams ==
  /\ Running("parse_fn_decl", "params")
  /\ LET q1 == EatTrivia(ParseParam(p))
         q2 == EatTrivia(BumpAny(q1))
     IN IF At(q1, "Comma")
        THEN Step(q2, [Top EXCEPT !.prev = Top.it, !.it = p.pos,
                         !.pc = IF At(q2, "RParen") THEN "params_end" ELSE "params"])
        ELSE Step(q1, [Top EXCEPT !.prev = Top.it, !.it = p.pos, !.pc = "params_end"])

\* parse_fn_decl, lines 164-174
FnParamsEnd ==
  /\ Running("parse_fn_decl", "params_end")
  /\ LET q1 == EatTrivia(Complete(Expect(p, "RParen"), Top.m2, "ParamList"))
         q2 == IF At(q1, "Arrow") THEN ParseType(BumpAny(q1)) ELSE q1
         q3 == EatTrivia(q2)
     IN IF At(q3, "Bang")
        THEN Call(q3, [Top EXCEPT !.pc = "body"], Frame("parse_effect_set", "entry"))
        ELSE Step(q3, [Top EXCEPT !.pc = "body"])

\* parse_fn_decl, lines 175-176
FnBody ==
  /\ Running("parse_fn_decl", "body")
  /\ Call(EatTrivia(p), [Top EXCEPT !.pc = "end"], Frame("parse_block", "entry"))

\* parse_fn_decl, line 177
FnEnd ==
  /\ Running("parse_fn_decl", "end")
  /\ Return(Complete(p, Top.m, "FnDecl"), ret)

\* parse_effect_set, lines 208-216
EffectEntry ==
  /\ Running("parse_effect_set", "entry")
  /\ LET m == MarkerOf(p)
         q1 == Start(p)
         q2 == IF At(q1, "Bang") THEN BumpAny(q1) ELSE ErrorHere(q1, "expected '!'")
         q3 == EatTrivia(Expect(q2, "LBrace"))
     IN Step(q3, [Top EXCEPT !.m = m,
                    !.pc = IF ~At(q3, "RBrace") THEN "loop" ELSE "end"])

\* parse_effect_set, lines 217-229: one turn of the effect loop
EffectLoop ==
  /\ Running("parse_effect_set", "loop")
  /\ LET q1 == EatTrivia(ParseIdent(p))
         q2 == EatTrivia(BumpAny(q1))
     IN IF At(q1, "Comma")
        THEN Step(q2, [Top EXCEPT !.prev = Top.it, !.it = p.pos,
                         !.pc = IF At(q2, "RBrace") THEN "end" ELSE "loop"])
        ELSE Step(q1, [Top EXCEPT !.prev = Top.it, !.it = p.pos, !.pc = "end"])

\* parse_effect_set, lines 231-232
EffectEnd ==
  /\ Running("parse_effect_set", "end")
  /\ Return(Complete(Expect(p, "RBrace"), Top.m, "EffectSet"), ret)

\* parse_struct_or_enum, lines 236-256
StructOrEnum ==
  /\ Running("parse_struct_or_enum", "entry")
  /\ IF At(p, "KwPub") THEN
       IF Nth(p, 1) = "KwStruct" THEN TailCall(p, Frame("parse_struct_decl", "entry"))
       ELSE IF Nth(p, 1) = "KwEnum" THEN TailCall(p, Frame("parse_enum_decl", "entry"))
       ELSE Return(BumpAny(ErrorHere(p, "expected 'struct' or 'enum' after 'pub'")), ret)
     ELSE IF At(p, "KwStruct") THEN TailCall(p, Frame("parse_struct_decl", "entry"))
     ELSE IF At(p, "KwEnum") THEN TailCall(p, Frame("parse_enum_decl", "entry"))
     ELSE Return(BumpAny(ErrorHere(p, "expected 'struct' or 'enum'")), ret)

\* parse_struct_decl, lines 260-267
StructEntry ==
  /\ Running("parse_struct_decl", "entry")
  /\ LET q1 == Start(p)
         q2 == IF At(q1, "KwPub") THEN BumpAny(q1) ELSE q1
         q3 == EatTrivia(Expect(ParseIdent(Expect(q2, "KwStruct")), "LBrace"))
     IN Step(q3, [Top EXCEPT !.m = MarkerOf(p), !.pc = "loop"])

\* parse_struct_decl, lines 268-278: the loop test and one field, or the end
StructLoop ==
  /\ Running("parse_struct_decl", "loop")
  /\ IF ~At(p, "RBrace") /\ ~At(p, "Eof")
     THEN LET f == MarkerOf(p)
              q1 == Expect(ParseType(Expect(ParseIdent(Start(p)), "Colon")), "Semi")
          IN Step(EatTrivia(Complete(q1, f, "StructField")), [Top EXCEPT !.prev = Top.it, !.it = p.pos])
     ELSE Return(Complete(Expect(p, "RBrace"), Top.m, "StructDecl"), ret)

\* parse_enum_decl, lines 282-289
EnumEntry ==
  /\ Running("parse_enum_decl", "entry")
  /\ LET q1 == Start(p)
         q2 == IF At(q1, "KwPub") THEN BumpAny(q1) ELSE q1
         q3 == EatTrivia(Expect(ParseIdent(Expect(q2, "KwEnum")), "LBrace"))
     IN Step(q3, [Top EXCEPT !.m = MarkerOf(p), !.pc = "loop"])

\* parse_enum_decl, lines 290-297 and 318-319: the loop test and the head of a
\* variant, or the end
EnumLoop ==
  /\ Running("parse_enum_decl", "loop")
  /\ IF ~At(p, "RBrace") /\ ~At(p, "Eof")
     THEN LET v == MarkerOf(p)
              q1 == EatTrivia(ParseIdent(Start(p)))
              q2 == EatTrivia(BumpAny(q1))
              fr == [Top EXCEPT !.m2 = v, !.prev = Top.it, !.it = p.pos, !.prev2 = -1, !.it2 = -1]
          IN IF At(q1, "LParen")
             THEN Step(q2, [fr EXCEPT !.pc = IF ~At(q2, "RParen") THEN "types"
                                             ELSE "types_end"])
             ELSE Step(q1, [fr EXCEPT !.pc = "variant_end"])
     ELSE Return(Complete(Expect(p, "RBrace"), Top.m, "EnumDecl"), ret)

\* parse_enum_decl, lines 298-310: one turn of the loop over a variant's types
EnumTypes ==
  /\ Running("parse_enum_decl", "types")
  /\ LET q1 == EatTrivia(ParseType(p))
         q2 == EatTrivia(BumpAny(q1))
     IN IF At(q1, "Comma")
        THEN Step(q2, [Top EXCEPT !.prev2 = Top.it2, !.it2 = p.pos,
                         !.pc = IF At(q2, "RParen") THEN "types_end" ELSE "types"])
        ELSE Step(q1, [Top EXCEPT !.prev2 = Top.it2, !.it2 = p.pos, !.pc = "types_end"])

\* parse_enum_decl, line 312
EnumTypesEnd ==
  /\ Running("parse_enum_decl", "types_end")
  /\ Step(Expect(p, "RParen"), [Top EXCEPT !.pc = "variant_end"])

\* parse_enum_decl, lines 314-316
EnumVariantEnd ==
  /\ Running("parse_enum_decl", "variant_end")
  /\ Step(EatTrivia(Complete(Expect(p, "Semi"), Top.m2, "EnumVariant")),
          [Top EXCEPT !.pc = "loop"])

\* parse_block, lines 352-354
BlockEnd(q, fr) == Complete(Expect(Complete(q, fr.m2, "StmtList"), "RBrace"), fr.m, "Block")

\* parse_block, lines 323-326
BlockEntry ==
  /\ Running("parse_block", "entry")
  /\ LET q1 == Expect(Start(p), "LBrace")
     IN Step(EatTrivia(Start(q1)),
             [Top EXCEPT !.m = MarkerOf(p), !.m2 = MarkerOf(q1), !.pc = "loop"])

\* parse_block, lines 327-339: the loop test and the call of a statement, or
\* the end, lines 352-354
BlockLoop ==
  /\ Running("parse_block", "loop")
  /\ IF ~At(p, "RBrace") /\ ~At(p, "Eof")
     THEN IF At(p, "KwLet")
          THEN Call(p, [Top EXCEPT !.pc = "after_stmt", !.prev = Top.it, !.it = p.pos],
                    Frame("parse_let_stmt", "entry"))
          ELSE IF At(p, "KwReturn")
          THEN Call(p, [Top EXCEPT !.pc = "after_stmt", !.prev = Top.it, !.it = p.pos],
                    Frame("parse_return_stmt", "entry"))
          ELSE Call(p, [Top EXCEPT !.pc = "after_expr", !.prev = Top.it, !.it = p.pos],
                    [Frame("parse_expr_bp", "entry") EXCEPT !.bp = 0])
     ELSE Return(BlockEnd(p, Top), Top.m)

\* parse_block, lines 330-331 and 335-336
BlockAfterStmt ==
  /\ Running("parse_block", "after_stmt")
  /\ Step(EatTrivia(p), [Top EXCEPT !.pc = "loop"])

\* parse_block with a fault: the `;` after an expression is consumed and the
\* expression is not wrapped.
BlockAfterExprUnwrapped ==
  /\ Running("parse_block", "after_expr")
  /\ LET q1 == EatTrivia(p)
     IN IF At(q1, "Semi")
        THEN Step(EatTrivia(BumpAny(q1)), [Top EXCEPT !.pc = "loop"])
        ELSE Return(BlockEnd(q1, Top), Top.m)

\* parse_block, lines 340-350: an expression statement, or the tail expression
\* and the end, lines 352-354
BlockAfterExpr ==
  /\ Running("parse_block", "after_expr")
  /\ LET expr == ret
         q1 == EatTrivia(p)
     IN IF At(q1, "Semi")
        THEN Step(EatTrivia(Complete(BumpAny(Precede(q1, expr)), expr, "ExprStmt")),
                  [Top EXCEPT !.pc = "loop"])
        ELSE Return(BlockEnd(q1, Top), Top.m)

\* parse_let_stmt, lines 358-369
LetEntry ==
  /\ Running("parse_let_stmt", "entry")
  /\ LET q1 == Expect(Start(p), "KwLet")
         q2 == IF At(q1, "KwMut") THEN BumpAny(q1) ELSE q1
         q3 == ParsePattern(q2)
         q4 == IF At(q3, "Colon") THEN ParseType(BumpAny(q3)) ELSE q3
     IN Call(Expect(q4, "Eq"), [Top EXCEPT !.m = MarkerOf(p), !.pc = "end"],
             [Frame("parse_expr_bp", "entry") EXCEPT !.bp = 0])

\* parse_let_stmt, lines 370-371
LetEnd ==
  /\ Running("parse_let_stmt", "end")
  /\ Return(Complete(Expect(p, "Semi"), Top.m, "LetStmt"), ret)

\* parse_return_stmt, lines 375-379
ReturnEntry ==
  /\ Running("parse_return_stmt", "entry")
  /\ LET q1 == Expect(Start(p), "KwReturn")
         fr == [Top EXCEPT !.m = MarkerOf(p), !.pc = "end"]
     IN IF ~At(q1, "Semi")
        THEN Call(q1, fr, [Frame("parse_expr_bp", "entry") EXCEPT !.bp = 0])
        ELSE Step(q1, fr)

\* parse_return_stmt, lines 380-381
ReturnEnd ==
  /\ Running("parse_return_stmt", "end")
  /\ Return(Complete(Expect(p, "Semi"), Top.m, "ReturnStmt"), ret)

\* The same with a fault: the right operand is parsed with the operator's left
\* binding power.
ExprBpOperatorLeftPower(q, min_bp) ==
  LET bp == InfixBindingPower(Current(q))
  IN IF bp = <<>> THEN <<>>
     ELSE IF bp[1] < min_bp THEN <<>>
     ELSE <<bp[1], bp[1]>>

\* parse_expr_bp, lines 406-413: the binding powers of the operator at the
\* current token when the loop goes on with it, <<>> when the loop breaks.
ExprBpOperator(q, min_bp) ==
  LET bp == InfixBindingPower(Current(q))
  IN IF bp = <<>> THEN <<>>
     ELSE IF bp[1] < min_bp THEN <<>>
     ELSE bp

\* The same with a fault: the node of the operator is started where the
\* parser stands, after the left operand, instead of preceding it.
ExprBpLoopStartingAfterLhs(q, lhs) ==
  LET q1 == EatTrivia(q)
      bp == ExprBpOperator(q1, Top.bp)
  IN IF bp = <<>> THEN Return(q1, lhs)
     ELSE Call(BumpAny(Start(q1)),
               [Top EXCEPT !.m = MarkerOf(q1), !.pc = "after_rhs", !.prev = Top.it,
                           !.it = q.pos],
               [Frame("parse_expr_bp", "entry") EXCEPT !.bp = bp[2]])

\* parse_expr_bp, lines 405-416 and 419: one turn of the operator loop with
\* left operand lhs, up to the call for the right operand, or the return
ExprBpLoop(q, lhs) ==
  LET q1 == EatTrivia(q)
      bp == ExprBpOperator(q1, Top.bp)
  IN IF bp = <<>> THEN Return(q1, lhs)
     ELSE Call(BumpAny(Precede(q1, lhs)),
               [Top EXCEPT !.m = lhs, !.pc = "after_rhs", !.prev = Top.it, !.it = q.pos],
               [Frame("parse_expr_bp", "entry") EXCEPT !.bp = bp[2]])

\* parse_expr_bp, lines 401-402
ExprBpEntry ==
  /\ Running("parse_expr_bp", "entry")
  /\ Call(EatTrivia(p), [Top EXCEPT !.pc = "after_postfix"],
          Frame("parse_postfix", "entry"))

\* parse_expr_bp, line 402 (lhs) and the first turn of the loop
ExprBpFirst ==
  /\ Running("parse_expr_bp", "after_postfix")
  /\ ExprBpLoop(p, ret)

\* parse_expr_bp, line 417 and the next turn of the loop
ExprBpNext ==
  /\ Running("parse_expr_bp", "after_rhs")
  /\ ExprBpLoop(Complete(p, Top.m, "BinExpr"), Top.m)

\* parse_postfix, lines 445-446
CallEnd(q, fr) == Complete(Expect(q, "RParen"), fr.m, "CallExpr")

\* parse_postfix, lines 425-457: one turn of the postfix loop with operand lhs
PostfixLoop(q, lhs) ==
  LET q1 == EatTrivia(q)
      fr == [Top EXCEPT !.m = lhs, !.lhs = lhs, !.prev = Top.it, !.it = q.pos, !.prev2 = -1, !.it2 = -1]
  IN IF At(q1, "LParen")
     THEN LET q2 == EatTrivia(BumpAny(Precede(q1, lhs)))
          IN IF ~At(q2, "RParen")
             THEN Call(q2, [fr EXCEPT !.pc = "after_arg", !.prev2 = -1, !.it2 = q2.pos],
                       [Frame("parse_expr_bp", "entry") EXCEPT !.bp = 0])
             ELSE Step(CallEnd(q2, fr), [fr EXCEPT !.pc = "loop"])
     ELSE IF At(q1, "Dot")
     THEN Step(Complete(ParseIdent(BumpAny(Precede(q1, lhs))), lhs, "MemberExpr"),
               [fr EXCEPT !.pc = "loop"])
     ELSE Return(q1, lhs)

\* parse_postfix, line 423
PostfixEntry ==
  /\ Running("parse_postfix", "entry")
  /\ Call(p, [Top EXCEPT !.pc = "after_primary"], Frame("parse_primary", "entry"))

\* parse_postfix, line 423 (lhs) and the first turn of the loop
PostfixFirst ==
  /\ Running("parse_postfix", "after_primary")
  /\ PostfixLoop(p, ret)

\* parse_postfix, the next turn of the loop
PostfixNext ==
  /\ Running("parse_postfix", "loop")
  /\ PostfixLoop(p, Top.lhs)

\* parse_postfix, lines 433-446: after an argument
PostfixAfterArg ==
  /\ Running("parse_postfix", "after_arg")
  /\ LET q1 == EatTrivia(p)
         q2 == EatTrivia(BumpAny(q1))
     IN IF At(q1, "Comma")
        THEN IF At(q2, "RParen")
             THEN Step(CallEnd(q2, Top), [Top EXCEPT !.pc = "loop"])
             ELSE Call(q2, [Top EXCEPT !.prev2 = Top.it2, !.it2 = q2.pos],
                       [Frame("parse_expr_bp", "entry") EXCEPT !.bp = 0])
        ELSE Step(CallEnd(q1, Top), [Top EXCEPT !.pc = "loop"])

\* parse_primary, lines 462-490
PrimaryEntry ==
  /\ Running("parse_primary", "entry")
  /\ LET q1 == EatTrivia(p)
         m == MarkerOf(q1)
     IN IF At(q1, "LBrace") THEN TailCall(q1, Frame("parse_block", "entry"))
        ELSE IF At(q1, "KwIf") THEN TailCall(q1, Frame("parse_if_expr", "entry"))
        ELSE IF At(q1, "KwMatch") THEN TailCall(q1, Frame("parse_match_expr", "entry"))
        ELSE IF At(q1, "Ident") THEN Return(ParseIdent(q1), IdentMarker(q1))
        ELSE IF IsLiteral(Current(q1)) THEN Return(ParseLiteral(q1), m)
        ELSE IF At(q1, "LParen")
        THEN Call(BumpAny(Start(q1)), [Top EXCEPT !.m = m, !.pc = "paren_end"],
                  [Frame("parse_expr_bp", "entry") EXCEPT !.bp = 0])
        ELSE Return(Complete(BumpUnlessEof(ErrorHere(Start(q1), "expected expression")),
                             m, "Error"), m)

\* parse_primary, lines 482-483
PrimaryParenEnd ==
  /\ Running("parse_primary", "paren_end")
  /\ Return(Complete(Expect(p, "RParen"), Top.m, "ParenExpr"), Top.m)

\* parse_if_expr, lines 494-496
IfEntry ==
  /\ Running("parse_if_expr", "entry")
  /\ Call(Expect(Start(p), "KwIf"), [Top EXCEPT !.m = MarkerOf(p), !.pc = "then"],
          [Frame("parse_expr_bp", "entry") EXCEPT !.bp = 0])

\* parse_if_expr, line 497
IfThen ==
  /\ Running("parse_if_expr", "then")
  /\ Call(p, [Top EXCEPT !.pc = "else"], Frame("parse_block", "entry"))

\* parse_if_expr, lines 498-506 when the else branch is taken up to its call,
\* line 506 when there is none
IfElse ==
  /\ Running("parse_if_expr", "else")
  /\ IF At(p, "KwElse")
     THEN LET q1 == BumpAny(p)
          IN IF At(q1, "KwIf")
             THEN Call(q1, [Top EXCEPT !.pc = "end"], Frame("parse_if_expr", "entry"))
             ELSE Call(q1, [Top EXCEPT !.pc = "end"], Frame("parse_block", "entry"))
     ELSE Return(Complete(p, Top.m, "IfExpr"), Top.m)

\* parse_if_expr, line 506 after an else branch
IfEnd ==
  /\ Running("parse_if_expr", "end")
  /\ Return(Complete(p, Top.m, "IfExpr"), Top.m)

\* parse_match_expr, lines 510-512
MatchEntry ==
  /\ Running("parse_match_expr", "entry")
  /\ Call(Expect(Start(p), "KwMatch"), [Top EXCEPT !.m = MarkerOf(p), !.pc = "open"],
          [Frame("parse_expr_bp", "entry") EXCEPT !.bp = 0])

\* parse_match_expr, lines 513-514
MatchOpen ==
  /\ Running("parse_match_expr", "open")
  /\ Step(EatTrivia(Expect(p, "LBrace")), [Top EXCEPT !.pc = "loop"])

\* parse_match_expr, lines 515-519: the loop test and the head of an arm, or
\* the end, lines 528-529
MatchLoop ==
  /\ Running("parse_match_expr", "loop")
  /\ IF ~At(p, "RBrace") /\ ~At(p, "Eof")
     THEN Call(Expect(ParsePattern(Start(p)), "FatArrow"),
               [Top EXCEPT !.m2 = MarkerOf(p), !.pc = "arm_end", !.prev = Top.it, !.it = p.pos],
               [Frame("parse_expr_bp", "entry") EXCEPT !.bp = 0])
     ELSE Return(Complete(Expect(p, "RBrace"), Top.m, "MatchExpr"), Top.m)

\* parse_match_expr, lines 520-526
MatchArmEnd ==
  /\ Running("parse_match_expr", "arm_end")
  /\ LET q1 == IF At(p, "Comma") THEN BumpAny(p)
               ELSE ErrorHere(p, "expected ',' after match arm")
     IN Step(EatTrivia(Complete(q1, Top.m2, "MatchArm")), [Top EXCEPT !.pc = "loop"])

ParserStep ==
  \/ RootEntry \/ RootLoop \/ RootAfter
  \/ FnEntry \/ FnParams \/ FnParamsEnd \/ FnBody \/ FnEnd
  \/ EffectEntry \/ EffectLoop \/ EffectEnd
  \/ StructOrEnum \/ StructEntry \/ StructLoop
  \/ EnumEntry \/ EnumLoop \/ EnumTypes \/ EnumTypesEnd \/ EnumVariantEnd
  \/ BlockEntry \/ BlockLoop \/ BlockAfterStmt \/ BlockAfterExpr
  \/ LetEntry \/ LetEnd \/ ReturnEntry \/ ReturnEnd
  \/ ExprBpEntry \/ ExprBpFirst \/ ExprBpNext
  \/ PostfixEntry \/ PostfixFirst \/ PostfixNext \/ PostfixAfterArg
  \/ PrimaryEntry \/ PrimaryParenEnd
  \/ IfEntry \/ IfThen \/ IfElse \/ IfEnd
  \/ MatchEntry \/ MatchOpen \/ MatchLoop \/ MatchArmEnd

\* ------------------------------------------------------------------------
\* jalm_syntax: the green tree built from the events, and the red overlay.
\* A green node is [kind, children], a token in it [kind, text]; a red node
\* adds the absolute offsets start and end of its text.

IsNode(e) == "children" \in DOMAIN e

Panicked == [kind |-> "<panic>", children |-> <<>>]

\* One event replayed by the GreenNodeBuilder on the stack stk of open nodes,
\* whose first element collects the finished roots; <<>> once it has panicked.
BuildEvent(stk, e) ==
  LET n == Len(stk)
  IN IF n = 0 THEN <<>>
     ELSE IF e.tag = "StartNode"
     THEN Append(stk, [kind |-> e.kind, children |-> <<>>])
     ELSE IF e.tag = "Token"
     THEN [stk EXCEPT ![n].children = Append(@, K(e.kind, e.text))]
     ELSE IF n < 2 THEN <<>>
     ELSE [SubSeq(stk, 1, n - 1) EXCEPT ![n - 1].children = Append(@, stk[n])]

RECURSIVE Build(_, _, _, _)
\* build_green, lines 480-487: the events lo..hi replayed in order
Build(events, lo, hi, stk) ==
  IF lo > hi THEN stk
  ELSE IF lo = hi THEN BuildEvent(stk, events[lo])
  ELSE LET mid == (lo + hi) \div 2
           first == Build(events, lo, mid, stk)
       IN IF first = <<>> THEN <<>> ELSE Build(events, mid + 1, hi, first)

\* build_green: builder.finish() panics unless exactly one root was built and
\* every node was finished.
BuildGreen(events) ==
  LET stk == Build(events, 1, Len(events), <<[kind |-> "", children |-> <<>>]>>)
  IN IF Len(stk) = 1 /\ Len(stk[1].children) = 1 /\ IsNode(stk[1].children[1])
     THEN stk[1].children[1]
     ELSE Panicked

RECURSIVE FlattenRange(_, _, _)
FlattenRange(seqs, lo, hi) ==
  IF lo > hi THEN <<>>
  ELSE IF lo = hi THEN seqs[lo]
  ELSE LET mid == (lo + hi) \div 2
       IN FlattenRange(seqs, lo, mid) \o FlattenRange(seqs, mid + 1, hi)

Flatten(seqs) == FlattenRange(seqs, 1, Len(seqs))

RECURSIVE Tokens(_)
\* The tokens of an element in document order, as lexemes [kind, text].
Tokens(e) ==
  IF IsNode(e) THEN Flatten([i \in 1..Len(e.children) |-> Tokens(e.children[i])])
  ELSE <<K(e.kind, e.text)>>

TokensOfAll(elems) == Flatten([i \in 1..Len(elems) |-> Tokens(elems[i])])

RECURSIVE Red(_, _)
\* The red tree over green element g at offset off: nodes [kind, start, end,
\* children] and tokens [kind, text, start, end] with their text ranges.
Red(g, off) ==
  IF IsNode(g)
  THEN [kind |-> g.kind, start |-> off, end |-> off + Len(Concat(Tokens(g))),
        children |-> [i \in 1..Len(g.children) |->
           Red(g.children[i],
               off + Len(Concat(TokensOfAll(SubSeq(g.children, 1, i - 1)))))]]
  ELSE [kind |-> g.kind, text |-> g.text, start |-> off, end |-> off + Len(g.text)]

\* Parse::syntax(): SyntaxNode::new_root(green)
Syntax(parse) == Red(parse.green, 0)

\* SyntaxNode::children(): the child nodes; children_with_tokens() is .children
Children(node) == SelectSeq(node.children, IsNode)

\* SyntaxNode::text().to_string()
Text(node) == Concat(Tokens(node))

\* to_string_lossless(node), as lexemes
ToStringLossless(node) == Text(node)

\* ------------------------------------------------------------------------
\* jalm_typecheck.  Option<T> is <<>> for None and <<v>> for Some(v).

\* enum Type: a variant without data has the empty name.
Ty(tag) == [tag |-> tag, name |-> ""]
Named(name) == [tag |-> "Named", name |-> name]

I64 == Ty("I64")
Bool == Ty("Bool")
Unit == Ty("Unit")
Unknown == Ty("Unknown")
Error == Ty("Error")

\* Type::name
TypeName(ty) ==
  CASE ty.tag = "I64" -> "i64"
    [] ty.tag = "I32" -> "i32"
    [] ty.tag = "F64" -> "f64"
    [] ty.tag = "Bool" -> "bool"
    [] ty.tag = "String" -> "string"
    [] ty.tag = "Bytes" -> "bytes"
    [] ty.tag = "Unit" -> "()"
    [] ty.tag = "Named" -> ty.name
    [] ty.tag = "Unknown" -> "<unknown>"
    [] ty.tag = "Error" -> "<error>"

RECURSIVE TrimStart(_)
TrimStart(lexemes) ==
  IF lexemes # <<>> /\ Head(lexemes).kind = "Whitespace" THEN TrimStart(Tail(lexemes))
  ELSE lexemes

RECURSIVE TrimEnd(_)
TrimEnd(lexemes) ==
  IF lexemes # <<>> /\ lexemes[Len(lexemes)].kind = "Whitespace"
  THEN TrimEnd(SubSeq(lexemes, 1, Len(lexemes) - 1))
  ELSE lexemes

\* node.text().to_string().trim(): whitespace is whole Whitespace tokens.
TrimmedText(node) == Concat(TrimEnd(TrimStart(Tokens(node))))

\* type_from_node
TypeFromNode(node) ==
  LET text == TrimmedText(node)
  IN CASE text = "i64" -> I64
       [] text = "i32" -> Ty("I32")
       [] text = "f64" -> Ty("F64")
       [] text = "bool" -> Bool
       [] text = "string" -> Ty("String")
       [] text = "bytes" -> Ty("Bytes")
       [] text = "()" -> Unit
       [] OTHER -> Named(text)

\* Iterator::find over a sequence: Some of the first element with Test.
Find(seq, Test(_)) ==
  LET hits == SelectSeq(seq, Test) IN IF hits = <<>> THEN <<>> ELSE <<hits[1]>>

FindKind(seq, kind) == LET Is(e) == e.kind = kind IN Find(seq, Is)

\* The i-th kids.next() of `let mut kids = node.children()`, an Option.
NextKid(kids, i) == IF i <= Len(kids) THEN <<kids[i]>> ELSE <<>>

\* is_expr_kind (type checker and formatter alike)
IsExprKind(kind) ==
  kind \in {"BinExpr", "CallExpr", "MemberExpr", "IfExpr", "MatchExpr",
            "IdentNode", "LiteralNode", "ParenExpr", "Block"}

IsExprNode(e) == IsExprKind(e.kind)

\* The elements after the first token of the kind (`seen` in the loops of
\* find_expr_after_token and find_return_type).
AfterToken(elems, kind) ==
  LET at == {i \in 1..Len(elems) : ~IsNode(elems[i]) /\ elems[i].kind = kind}
  IN IF at = {} THEN <<>>
     ELSE SubSeq(elems, (CHOOSE i \in at : \A j \in at : i <= j) + 1, Len(elems))

\* find_expr_after_token (type checker and formatter alike)
FindExprAfterToken(node, kind) ==
  Find(SelectSeq(AfterToken(node.children, kind), IsNode), IsExprNode)

IsTypeNode(e) == e.kind = "Type"

\* find_return_type of the type checker
FindReturnType(node) ==
  LET ty == FindKind(SelectSeq(AfterToken(node.children, "Arrow"), IsNode), "Type")
  IN IF ty = <<>> THEN <<>> ELSE <<TypeFromNode(ty[1])>>

RECURSIVE FindIdentIn(_)
RECURSIVE FindIdentInAll(_)
FindIdentInAll(nodes) ==
  IF nodes = <<>> THEN <<>>
  ELSE LET name == FindIdentIn(Head(nodes))
       IN IF name # <<>> THEN name ELSE FindIdentInAll(Tail(nodes))

FindIdentIn(node) ==
  LET IsIdent(e) == ~IsNode(e) /\ e.kind = "Ident"
      tok == Find(node.children, IsIdent)
  IN IF tok # <<>> THEN <<tok[1].text>> ELSE FindIdentInAll(Children(node))

FindTypeIn(node) ==
  LET ty == FindKind(Children(node), "Type")
  IN IF ty = <<>> THEN <<>> ELSE <<TypeFromNode(ty[1])>>

\* literal_type
LiteralType(node) ==
  LET IsToken(e) == ~IsNode(e)
      tok == Find(node.children, IsToken)
  IN IF tok = <<>> THEN Unknown
     ELSE CASE tok[1].kind = "Int" -> I64
            [] tok[1].kind = "Float" -> Ty("F64")
            [] tok[1].kind = "String" -> Ty("String")
            [] tok[1].kind = "Bytes" -> Ty("Bytes")
            [] tok[1].kind \in {"KwTrue", "KwFalse"} -> Bool
            [] OTHER -> Unknown

IsNumeric(ty) == ty.tag \in {"I64", "I32", "F64"}

TypeCompatible(a, b) ==
  IF a.tag = "Unknown" \/ b.tag = "Unknown" THEN TRUE ELSE a = b

\* bin_parts of the type checker: <<>> for None, else <<op_kind, left, right>>
BinParts(node) ==
  LET kids == Children(node)
      IsOp(e) == ~IsNode(e) /\ e.kind \in InfixOps
      op == Find(node.children, IsOp)
  IN IF Len(kids) < 2 \/ op = <<>> THEN <<>>
     ELSE <<op[1].kind, kids[1], kids[2]>>

\* struct Checker {scopes, current_return, diagnostics}, Checker::new.  A scope
\* is a function from names to types.
NewChecker ==
  [scopes |-> << <<>> >>, current_return |-> Unit, diagnostics |-> <<>>]

\* Checker::report
Report(c, node, code, message, expected, actual) ==
  [c EXCEPT !.diagnostics = Append(@,
     [code |-> code, message |-> message, start |-> node.start, end |-> node.end,
      expected |-> expected, actual |-> actual])]

\* Checker::type_mismatch
TypeMismatch(c, node, expected, actual, code) ==
  Report(c, node, code, "type mismatch", <<TypeName(expected)>>, <<TypeName(actual)>>)

EnterScope(c) == [c EXCEPT !.scopes = Append(@, <<>>)]

ExitScope(c) ==
  [c EXCEPT !.scopes = IF @ = <<>> THEN @ ELSE SubSeq(@, 1, Len(@) - 1)]

InsertVar(c, name, ty) ==
  IF c.scopes = <<>> THEN c
  ELSE [c EXCEPT !.scopes[Len(c.scopes)] =
          [n \in DOMAIN @ \cup {name} |-> IF n = name THEN ty ELSE @[n]]]

\* Checker::lookup_var: innermost scope first
LookupVar(c, name) ==
  LET has == {i \in 1..Len(c.scopes) : name \in DOMAIN c.scopes[i]}
  IN IF has = {} THEN <<>>
     ELSE <<c.scopes[CHOOSE i \in has : \A j \in has : j <= i][name]>>

RECURSIVE BindParams(_, _)
\* check_fn, lines 97-101
BindParams(c, params) ==
  IF params = <<>> THEN c
  ELSE LET name == FindIdentIn(Head(params))
           ty == FindTypeIn(Head(params))
       IN BindParams(IF name # <<>> /\ ty # <<>> THEN InsertVar(c, name[1], ty[1]) ELSE c,
                     Tail(params))

\* check_fn, lines 92-102: the checker as the body is entered
EnterFn(c, node) ==
  LET found == FindReturnType(node)
      c1 == EnterScope([c EXCEPT !.current_return = IF found = <<>> THEN Unit ELSE found[1]])
      params == FindKind(Children(node), "ParamList")
      IsParam(n) == n.kind = "Param"
  IN IF params = <<>> THEN c1
     ELSE BindParams(c1, SelectSeq(Children(params[1]), IsParam))

\* The check functions that return a Type give [c, ty]: the checker after the
\* call and the type.
Typed(c, ty) == [c |-> c, ty |-> ty]

RECURSIVE CheckExpr(_, _)
RECURSIVE CheckStmt(_, _)
RECURSIVE CheckItems(_, _, _)
RECURSIVE CheckArms(_, _, _)

\* expr.map(|e| self.check_expr(&e)).unwrap_or(default)
CheckOr(c, expr, default) ==
  IF expr = <<>> THEN Typed(c, default) ELSE CheckExpr(c, expr[1])

\* check_block, lines 119-125: the items from the idx-th on; the last one
\* gives the type when it is an expression
CheckItems(c, items, idx) ==
  IF idx > Len(items) THEN Typed(c, Unit)
  ELSE IF idx = Len(items) /\ IsExprKind(items[idx].kind) /\ items[idx].kind # "ExprStmt"
  THEN CheckExpr(c, items[idx])
  ELSE CheckItems(CheckStmt(c, items[idx]), items, idx + 1)

\* check_block, line 116: the statements of the block
StmtsOf(node) ==
  LET stmts == FindKind(Children(node), "StmtList")
  IN IF stmts = <<>> THEN <<>> ELSE Children(stmts[1])

\* Checker::check_block
CheckBlock(c, node) == CheckItems(c, StmtsOf(node), 1)

\* check_let, lines 148-151
LetName(node) ==
  LET pattern == FindKind(Children(node), "Pattern")
  IN IF pattern = <<>> THEN <<>> ELSE FindIdentIn(pattern[1])

\* check_let, lines 158-167, with r the checked initializer
LetBind(node, name, ty_annot, r) ==
  IF name = <<>> THEN r.c
  ELSE IF ty_annot # <<>>
  THEN InsertVar(IF ~TypeCompatible(ty_annot[1], r.ty)
                 THEN TypeMismatch(r.c, node, ty_annot[1], r.ty, "E0003")
                 ELSE r.c,
                 name[1], ty_annot[1])
  ELSE InsertVar(r.c, name[1], r.ty)

\* Checker::check_let
CheckLet(c, node) ==
  LetBind(node, LetName(node), FindTypeIn(node),
          CheckOr(c, FindExprAfterToken(node, "Eq"), Unknown))

\* check_return, lines 173-176, with r the checked value
ReturnValue(node, r) ==
  IF ~TypeCompatible(r.c.current_return, r.ty)
  THEN TypeMismatch(r.c, node, r.c.current_return, r.ty, "E0004")
  ELSE r.c

\* Checker::check_return
CheckReturn(c, node) ==
  ReturnValue(node, CheckOr(c, Find(Children(node), IsExprNode), Unit))

\* The checker after r, whatever its type.
After(r) == r.c

\* Checker::check_stmt
CheckStmt(c, node) ==
  CASE node.kind = "LetStmt" -> CheckLet(c, node)
    [] node.kind = "ReturnStmt" -> CheckReturn(c, node)
    [] node.kind = "ExprStmt" -> After(CheckOr(c, Find(Children(node), IsExprNode), Unit))
    [] OTHER -> IF IsExprKind(node.kind) THEN After(CheckOr(c, <<node>>, Unit)) ELSE c

\* check_expr, lines 181-190: an identifier of the name (an Option)
CheckIdent(c, node, name) ==
  IF name = <<>> THEN Typed(c, Unknown)
  ELSE IF LookupVar(c, name[1]) # <<>> THEN Typed(c, LookupVar(c, name[1])[1])
  ELSE Typed(Report(c, node, "E0001", "undefined variable", <<>>, name), Error)

\* check_if_expr, lines 208-211, with rc the checked condition
IfCondType(kids, rc) ==
  IF kids # <<>> /\ rc.ty # Bool /\ rc.ty # Error
  THEN TypeMismatch(rc.c, kids[1], Bool, rc.ty, "E0005")
  ELSE rc.c

\* check_if_expr, lines 216-221, with rt and re the checked branches
IfBranches(node, rt, re) ==
  IF ~TypeCompatible(rt.ty, re.ty)
  THEN Typed(TypeMismatch(re.c, node, rt.ty, re.ty, "E0006"), Error)
  ELSE Typed(re.c, rt.ty)

\* check_if_expr, line 215
IfElseType(node, kids, rt) == IfBranches(node, rt, CheckOr(rt.c, NextKid(kids, 3), Unit))

\* Checker::check_if_expr
CheckIfExpr(c, node, kids) ==
  IfElseType(node, kids,
         CheckOr(IfCondType(kids, CheckOr(c, NextKid(kids, 1), Unit)),
                 NextKid(kids, 2), Unit))

\* check_match_expr, lines 231-238, with r the checked expression of the
\* first of the arms and arm_type the type of the arms before it (an Option)
ArmType(arms, arm_type, r) ==
  IF arm_type = <<>> THEN CheckArms(r.c, Tail(arms), <<r.ty>>)
  ELSE IF ~TypeCompatible(arm_type[1], r.ty)
  THEN Typed(TypeMismatch(r.c, Head(arms), arm_type[1], r.ty, "E0007"),
             Error)
  ELSE CheckArms(r.c, Tail(arms), arm_type)

\* check_match_expr, lines 228-241: the arms from the first of `arms` on
CheckArms(c, arms, arm_type) ==
  IF arms = <<>> THEN Typed(c, IF arm_type = <<>> THEN Unit ELSE arm_type[1])
  ELSE IF Find(Children(Head(arms)), IsExprNode) = <<>>
  THEN CheckArms(c, Tail(arms), arm_type)
  ELSE ArmType(arms, arm_type, CheckOr(c, Find(Children(Head(arms)), IsExprNode), Unit))

IsMatchArm(n) == n.kind = "MatchArm"

\* Checker::check_match_expr
CheckMatchExpr(c, node, kids) ==
  CheckArms(After(CheckOr(c, NextKid(kids, 1), Unit)),
            SelectSeq(SubSeq(kids, 2, Len(kids)), IsMatchArm), <<>>)

\* check_bin_expr, lines 251-288, with l the type of the left operand and rr
\* the checked right operand
BinResult(node, op_kind, l, rr) ==
  IF l = Error \/ rr.ty = Error THEN Typed(rr.c, Error)
  ELSE CASE op_kind \in {"Plus", "Minus", "Star", "Slash", "Percent"} ->
              IF IsNumeric(l) /\ TypeCompatible(l, rr.ty) THEN Typed(rr.c, l)
              ELSE Typed(TypeMismatch(rr.c, node, l, rr.ty, "E0003"), Error)
         [] op_kind \in {"EqEq", "Neq"} ->
              IF TypeCompatible(l, rr.ty) THEN Typed(rr.c, Bool)
              ELSE Typed(TypeMismatch(rr.c, node, l, rr.ty, "E0003"), Error)
         [] op_kind \in {"Lt", "Lte", "Gt", "Gte"} ->
              IF IsNumeric(l) /\ TypeCompatible(l, rr.ty) THEN Typed(rr.c, Bool)
              ELSE Typed(TypeMismatch(rr.c, node, l, rr.ty, "E0003"), Error)
         [] op_kind \in {"AndAnd", "OrOr"} ->
              IF l = Bool /\ rr.ty = Bool THEN Typed(rr.c, Bool)
              ELSE Typed(TypeMismatch(rr.c, node, Bool, l, "E0003"), Error)
         [] OTHER -> Typed(rr.c, Unknown)

\* check_bin_expr, line 250, with rl the checked left operand
BinRight(node, parts, rl) ==
  BinResult(node, parts[1], rl.ty, CheckOr(rl.c, <<parts[3]>>, Unit))

\* Checker::check_bin_expr
CheckBinExpr(c, node, parts) ==
  IF parts = <<>> THEN Typed(c, Unknown)
  ELSE BinRight(node, parts, CheckOr(c, <<parts[2]>>, Unit))

\* Checker::check_expr
CheckExpr(c, node) ==
  CASE node.kind = "IdentNode" -> CheckIdent(c, node, FindIdentIn(node))
    [] node.kind = "LiteralNode" -> Typed(c, LiteralType(node))
    [] node.kind = "BinExpr" -> CheckBinExpr(c, node, BinParts(node))
    [] node.kind = "CallExpr" -> Typed(c, Unknown)
    [] node.kind = "MemberExpr" -> Typed(c, Unknown)
    [] node.kind = "IfExpr" -> CheckIfExpr(c, node, Children(node))
    [] node.kind = "MatchExpr" -> CheckMatchExpr(c, node, Children(node))
    [] node.kind = "Block" -> CheckBlock(c, node)
    [] node.kind = "ParenExpr" -> CheckOr(c, Find(Children(node), IsExprNode), Unknown)
    [] OTHER -> Typed(c, Unknown)

\* The same with a fault: a body of type Error is compared as well.
FnBodyTypeOfError(block, r) ==
  IF ~TypeCompatible(r.c.current_return, r.ty)
  THEN TypeMismatch(r.c, block, r.c.current_return, r.ty, "E0004")
  ELSE r.c

\* check_fn, lines 104-108, with r the checked body
FnBodyType(block, r) ==
  IF r.ty # Error /\ ~TypeCompatible(r.c.current_return, r.ty)
  THEN TypeMismatch(r.c, block, r.c.current_return, r.ty, "E0004")
  ELSE r.c

\* check_fn, lines 103-109, with c1 the checker as the body is entered
CheckBody(c1, block) ==
  IF block = <<>> THEN c1 ELSE FnBodyType(block[1], CheckBlock(c1, block[1]))

\* Checker::check_fn
\* The same with a fault: the scope of the function is not popped.
CheckFnKeepingScope(c, node) ==
  [CheckBody(EnterFn(c, node), FindKind(Children(node), "Block"))
     EXCEPT !.current_return = c.current_return]

CheckFn(c, node) ==
  [ExitScope(CheckBody(EnterFn(c, node), FindKind(Children(node), "Block")))
     EXCEPT !.current_return = c.current_return]

RECURSIVE CheckItemsOfRoot(_, _)
CheckItemsOfRoot(c, items) ==
  IF items = <<>> THEN c
  ELSE CheckItemsOfRoot(IF Head(items).kind = "FnDecl" THEN CheckFn(c, Head(items)) ELSE c,
                        Tail(items))

\* check_root
CheckRoot(c, node) == CheckItemsOfRoot(c, Children(node))

\* ------------------------------------------------------------------------
\* jalm_formatter.  The text written is kept as the sequence of its pieces,
\* each piece the lexeme it is read back as.  A method of Formatter is the
\* pieces it pushes to `out`, given the `indent` it is entered with: every
\* method leaves `indent` as it found it (each += 1 has its -= 1).

Sp == K("Whitespace", " ")

\* Formatter::newline at the indent
Newline(indent) == <<K("Whitespace", "\n")>> \o [i \in 1..indent |-> K("Whitespace", "  ")]

\* first_ident_child_text, as the pieces to push: none for None
FirstIdentChildText(node) ==
  LET IsIdent(e) == ~IsNode(e) /\ e.kind = "Ident"
      tok == Find(node.children, IsIdent)
  IN IF tok = <<>> THEN <<>> ELSE <<K("Ident", tok[1].text)>>

\* literal_text, as the pieces to push
LiteralText(node) ==
  LET IsLit(e) == ~IsNode(e) /\ IsLiteral(e.kind)
      tok == Find(node.children, IsLit)
  IN IF tok = <<>> THEN <<>> ELSE <<K(tok[1].kind, tok[1].text)>>

\* The name of the first IdentNode child, as the pieces to push.
NameOf(node) ==
  LET id == FindKind(Children(node), "IdentNode")
  IN IF id = <<>> THEN <<>> ELSE FirstIdentChildText(id[1])

HasToken(node, kind) == \E i \in 1..Len(node.children) :
                          ~IsNode(node.children[i]) /\ node.children[i].kind = kind

\* Formatter::type_node
TypeNode(node) == TrimEnd(TrimStart(Tokens(node)))

\* infix_binding_power of the formatter
FmtInfixBindingPower(kind) ==
  CASE kind = "OrOr" -> <<1, 2>>
    [] kind = "AndAnd" -> <<3, 4>>
    [] kind \in {"EqEq", "Neq"} -> <<5, 6>>
    [] kind \in {"Lt", "Lte", "Gt", "Gte"} -> <<7, 8>>
    [] kind \in {"Plus", "Minus"} -> <<9, 10>>
    [] kind \in {"Star", "Slash", "Percent"} -> <<11, 12>>
    [] OTHER -> <<0, 0>>

\* bin_parts of the formatter: <<>> for None, else <<op token, left, right>>
FmtBinParts(node) ==
  LET kids == Children(node)
      IsOp(e) == ~IsNode(e) /\ e.kind \in InfixOps
      op == Find(node.children, IsOp)
  IN IF Len(kids) < 2 \/ op = <<>> THEN <<>>
     ELSE <<K(op[1].kind, op[1].text), kids[1], kids[2]>>

\* Formatter::module_decl
FmtModuleDecl(node) == <<K("KwMod", "mod"), Sp>> \o NameOf(node) \o <<K("Semi", ";")>>

RECURSIVE UsePathParts(_)
UsePathParts(elems) ==
  IF elems = <<>> THEN <<>>
  ELSE LET el == Head(elems)
       IN (IF ~IsNode(el) /\ el.kind = "Ident" THEN <<K("Ident", el.text)>>
           ELSE IF ~IsNode(el) /\ el.kind = "ColonColon" THEN <<K("ColonColon", "::")>>
           ELSE <<>>) \o UsePathParts(Tail(elems))

\* format_use_path, as the pieces to push
FormatUsePath(node) ==
  LET path == FindKind(Children(node), "UsePath")
  IN IF path = <<>> THEN <<>> ELSE UsePathParts(path[1].children)

\* find_kw_as_alias, as the pieces to push
FindKwAsAlias(node) ==
  LET IsIdent(e) == ~IsNode(e) /\ e.kind = "Ident"
      tok == Find(AfterToken(node.children, "KwAs"), IsIdent)
  IN IF tok = <<>> THEN <<>> ELSE <<K("Ident", tok[1].text)>>

\* Formatter::use_decl
FmtUseDecl(node) ==
  <<K("KwUse", "use"), Sp>> \o FormatUsePath(node)
  \o (IF FindKwAsAlias(node) # <<>>
      THEN <<Sp, K("KwAs", "as"), Sp>> \o FindKwAsAlias(node) ELSE <<>>)
  \o <<K("Semi", ";")>>

\* `: Type` when there is a type (an Option)
TypeAnnot(ty) == IF ty = <<>> THEN <<>> ELSE <<K("Colon", ":"), Sp>> \o TypeNode(ty[1])

\* Formatter::param
FmtParam(node) ==
  (IF HasToken(node, "KwMut") THEN <<K("KwMut", "mut"), Sp>> ELSE <<>>)
  \o NameOf(node) \o TypeAnnot(FindKind(Children(node), "Type"))

\* `, ` before every element but the first (the `first` flag of the loops)
Separated(i) == IF i = 1 THEN <<>> ELSE <<K("Comma", ","), Sp>>

IsParamNode(n) == n.kind = "Param"

\* Formatter::param_list
FmtParamList(node) ==
  LET params == SelectSeq(Children(node), IsParamNode)
  IN Flatten([i \in 1..Len(params) |-> Separated(i) \o FmtParam(params[i])])

IsIdentNode(n) == n.kind = "IdentNode"

\* Formatter::effect_set
FmtEffectSet(node) ==
  LET idents == SelectSeq(Children(node), IsIdentNode)
  IN <<K("Bang", "!"), K("LBrace", "{")>>
     \o Flatten([i \in 1..Len(idents) |-> Separated(i) \o FirstIdentChildText(idents[i])])
     \o <<K("RBrace", "}")>>

\* `pub ` when the declaration has the token
PubOf(node) == IF HasToken(node, "KwPub") THEN <<K("KwPub", "pub"), Sp>> ELSE <<>>

IsStructField(n) == n.kind = "StructField"

\* Formatter::struct_decl
FmtStructDecl(node, indent) ==
  LET fields == SelectSeq(Children(node), IsStructField)
  IN PubOf(node) \o <<K("KwStruct", "struct"), Sp>> \o NameOf(node) \o <<Sp, K("LBrace", "{")>>
     \o Flatten([i \in 1..Len(fields) |->
                   Newline(indent + 1) \o NameOf(fields[i])
                   \o TypeAnnot(FindKind(Children(fields[i]), "Type")) \o <<K("Semi", ";")>>])
     \o Newline(indent) \o <<K("RBrace", "}")>>

\* enum_decl, lines 247-259: the types of a variant in parentheses
VariantTypes(types) ==
  IF types = <<>> THEN <<>>
  ELSE <<K("LParen", "(")>>
       \o Flatten([i \in 1..Len(types) |-> Separated(i) \o TypeNode(types[i])])
       \o <<K("RParen", ")")>>

IsEnumVariant(n) == n.kind = "EnumVariant"

\* Formatter::enum_decl
FmtEnumDecl(node, indent) ==
  LET variants == SelectSeq(Children(node), IsEnumVariant)
  IN PubOf(node) \o <<K("KwEnum", "enum"), Sp>> \o NameOf(node) \o <<Sp, K("LBrace", "{")>>
     \o Flatten([i \in 1..Len(variants) |->
                   Newline(indent + 1) \o NameOf(variants[i])
                   \o VariantTypes(SelectSeq(Children(variants[i]), IsTypeNode))
                   \o <<K("Semi", ";")>>])
     \o Newline(indent) \o <<K("RBrace", "}")>>

\* find_return_type of the formatter
FmtFindReturnType(node) ==
  FindKind(SelectSeq(AfterToken(node.children, "Arrow"), IsNode), "Type")

BlockStmtKinds == {"LetStmt", "ReturnStmt", "ExprStmt", "IfExpr", "MatchExpr", "Block",
                   "BinExpr", "CallExpr", "MemberExpr", "IdentNode", "LiteralNode",
                   "ParenExpr", "Error"}

IsUnderscore(e) == ~IsNode(e) /\ e.kind = "Underscore"

\* pattern, lines 404-422, with the Options found in the node
PatternText(tok, lit, ident) ==
  IF tok # <<>> THEN <<K("Underscore", tok[1].text)>>
  ELSE IF lit # <<>> /\ LiteralText(lit[1]) # <<>> THEN LiteralText(lit[1])
  ELSE IF ident # <<>> THEN FirstIdentChildText(ident[1])
  ELSE <<>>

\* Formatter::pattern
FmtPattern(node) ==
  PatternText(Find(node.children, IsUnderscore), FindKind(Children(node), "LiteralNode"),
              FindKind(Children(node), "IdentNode"))

PatternOpt(pat) == IF pat = <<>> THEN <<>> ELSE FmtPattern(pat[1])

RECURSIVE FmtExpr(_, _, _), FmtStmt(_, _), FmtBlock(_, _), FmtIfExpr(_, _)

\* if let Some(expr) = ... { self.expr(&expr, 0) }
ExprOpt(expr, indent) == IF expr = <<>> THEN <<>> ELSE FmtExpr(expr[1], 0, indent)

\* Formatter::let_stmt
FmtLetStmt(node, indent) ==
  <<K("KwLet", "let"), Sp>>
  \o (IF HasToken(node, "KwMut") THEN <<K("KwMut", "mut"), Sp>> ELSE <<>>)
  \o PatternOpt(FindKind(Children(node), "Pattern"))
  \o TypeAnnot(FindKind(Children(node), "Type"))
  \o <<Sp, K("Eq", "="), Sp>>
  \o ExprOpt(FindExprAfterToken(node, "Eq"), indent)
  \o <<K("Semi", ";")>>

\* return_stmt, lines 341-344: the value after a blank
ReturnExpr(expr, indent) == IF expr = <<>> THEN <<>> ELSE <<Sp>> \o ExprOpt(expr, indent)

\* Formatter::return_stmt
FmtReturnStmt(node, indent) ==
  <<K("KwReturn", "return")>> \o ReturnExpr(Find(Children(node), IsExprNode), indent)
  \o <<K("Semi", ";")>>

\* Formatter::expr_stmt
FmtExprStmt(node, indent) ==
  ExprOpt(Find(Children(node), IsExprNode), indent) \o <<K("Semi", ";")>>

\* block, lines 275-298: the idx-th statement of the list
FmtBlockItem(items, idx, indent) ==
  IF items[idx].kind \notin BlockStmtKinds THEN <<>>
  ELSE Newline(indent)
       \o (IF idx = Len(items) /\ IsExprKind(items[idx].kind) /\ items[idx].kind # "ExprStmt"
           THEN ExprOpt(<<items[idx]>>, indent)
           ELSE FmtStmt(items[idx], indent))

\* block, lines 270-305, with the statements of its StmtList
FmtBlockItems(items, indent) ==
  <<K("LBrace", "{")>>
  \o Flatten([idx \in 1..Len(items) |-> FmtBlockItem(items, idx, indent + 1)])
  \o (IF \E idx \in 1..Len(items) : items[idx].kind \in BlockStmtKinds
      THEN Newline(indent) ELSE <<>>)
  \o <<K("RBrace", "}")>>

\* Formatter::block
FmtBlock(node, indent) == FmtBlockItems(StmtsOf(node), indent)

\* if_expr, lines 361-364
ThenBlock(kids, indent) == IF Len(kids) >= 2 THEN <<Sp>> \o FmtBlock(kids[2], indent) ELSE <<>>

\* if_expr, lines 365-372: an IfExpr or a block after ` else `
ElseBranch(kids, indent) ==
  IF Len(kids) < 3 THEN <<>>
  ELSE <<Sp, K("KwElse", "else"), Sp>>
       \o (IF kids[3].kind = "IfExpr" THEN FmtIfExpr(Children(kids[3]), indent)
           ELSE FmtBlock(kids[3], indent))

\* Formatter::if_expr, with the children of the node
FmtIfExpr(kids, indent) ==
  <<K("KwIf", "if"), Sp>> \o ExprOpt(NextKid(kids, 1), indent)
  \o ThenBlock(kids, indent) \o ElseBranch(kids, indent)

IsNotPattern(n) == n.kind # "Pattern"

\* Formatter::match_arm
FmtMatchArm(node, indent) ==
  PatternOpt(FindKind(Children(node), "Pattern")) \o <<Sp, K("FatArrow", "=>"), Sp>>
  \o ExprOpt(Find(Children(node), IsNotPattern), indent) \o <<K("Comma", ",")>>

\* match_expr, lines 383-386
FmtArms(arms, indent) ==
  Flatten([i \in 1..Len(arms) |-> Newline(indent) \o FmtMatchArm(arms[i], indent)])

\* Formatter::match_expr, with the children of the node
FmtMatchExpr(kids, indent) ==
  <<K("KwMatch", "match"), Sp>> \o ExprOpt(NextKid(kids, 1), indent)
  \o <<Sp, K("LBrace", "{")>>
  \o FmtArms(SelectSeq(SubSeq(kids, 2, Len(kids)), IsMatchArm), indent + 1)
  \o Newline(indent) \o <<K("RBrace", "}")>>

\* bin_expr with a fault: a child of the binding power of its parent is put
\* in parentheses as well.
FmtBinParts3WrappingEqual(parts, bp, min_bp, indent) ==
  (IF bp[1] <= min_bp THEN <<K("LParen", "(")>> ELSE <<>>)
  \o FmtExpr(parts[2], bp[1], indent) \o <<Sp, parts[1], Sp>>
  \o FmtExpr(parts[3], bp[2], indent)
  \o (IF bp[1] <= min_bp THEN <<K("RParen", ")")>> ELSE <<>>)

\* bin_expr, lines 453-465, with the parts and the binding powers of the operator
FmtBinParts3(parts, bp, min_bp, indent) ==
  (IF bp[1] < min_bp THEN <<K("LParen", "(")>> ELSE <<>>)
  \o FmtExpr(parts[2], bp[1], indent) \o <<Sp, parts[1], Sp>>
  \o FmtExpr(parts[3], bp[2], indent)
  \o (IF bp[1] < min_bp THEN <<K("RParen", ")")>> ELSE <<>>)

\* Formatter::bin_expr, with the bin_parts of the node
FmtBinExpr(parts, min_bp, indent) ==
  IF parts = <<>> THEN <<>>
  ELSE FmtBinParts3(parts, FmtInfixBindingPower(parts[1].kind), min_bp, indent)

\* call_expr, lines 475-481
FmtArgs(args, indent) ==
  Flatten([i \in 1..Len(args) |-> Separated(i) \o ExprOpt(<<args[i]>>, indent)])

\* Formatter::call_expr, with the children of the node
FmtCallExpr(kids, indent) ==
  ExprOpt(NextKid(kids, 1), indent) \o <<K("LParen", "(")>>
  \o FmtArgs(SubSeq(kids, 2, Len(kids)), indent) \o <<K("RParen", ")")>>

\* member_expr, lines 490-495
FieldOf(kids) ==
  IF Len(kids) >= 2 THEN <<K("Dot", ".")>> \o FirstIdentChildText(kids[2]) ELSE <<>>

\* Formatter::member_expr, with the children of the node
FmtMemberExpr(kids, indent) == ExprOpt(NextKid(kids, 1), indent) \o FieldOf(kids)

\* Formatter::paren_expr, with the children of the node
FmtParenExpr(kids, indent) ==
  <<K("LParen", "(")>> \o ExprOpt(NextKid(kids, 1), indent) \o <<K("RParen", ")")>>

\* Formatter::stmt
FmtStmt(node, indent) ==
  CASE node.kind = "LetStmt" -> FmtLetStmt(node, indent)
    [] node.kind = "ReturnStmt" -> FmtReturnStmt(node, indent)
    [] node.kind = "ExprStmt" -> FmtExprStmt(node, indent)
    [] node.kind = "IfExpr" -> FmtIfExpr(Children(node), indent)
    [] node.kind = "MatchExpr" -> FmtMatchExpr(Children(node), indent)
    [] node.kind = "Block" -> FmtBlock(node, indent)
    [] OTHER -> ExprOpt(<<node>>, indent)

\* Formatter::expr
FmtExpr(node, min_bp, indent) ==
  CASE node.kind = "BinExpr" -> FmtBinExpr(FmtBinParts(node), min_bp, indent)
    [] node.kind = "CallExpr" -> FmtCallExpr(Children(node), indent)
    [] node.kind = "MemberExpr" -> FmtMemberExpr(Children(node), indent)
    [] node.kind = "IfExpr" -> FmtIfExpr(Children(node), indent)
    [] node.kind = "MatchExpr" -> FmtMatchExpr(Children(node), indent)
    [] node.kind = "Block" -> FmtBlock(node, indent)
    [] node.kind = "ParenExpr" -> FmtParenExpr(Children(node), indent)
    [] node.kind = "IdentNode" -> FirstIdentChildText(node)
    [] node.kind = "LiteralNode" -> LiteralText(node)
    [] OTHER -> <<>>

\* fn_decl, lines 119-125
ParamsOf(params) ==
  <<K("LParen", "(")>> \o (IF params = <<>> THEN <<>> ELSE FmtParamList(params[1]))
  \o <<K("RParen", ")")>>

\* fn_decl, lines 126-129
ReturnTypeOf(rt) ==
  IF rt = <<>> THEN <<>> ELSE <<Sp, K("Arrow", "->"), Sp>> \o TypeNode(rt[1])

\* fn_decl, lines 130-133
EffectsOf(effects) == IF effects = <<>> THEN <<>> ELSE <<Sp>> \o FmtEffectSet(effects[1])

\* fn_decl, lines 134-137
BodyOf(block, indent) == IF block = <<>> THEN <<>> ELSE <<Sp>> \o FmtBlock(block[1], indent)

\* Formatter::fn_decl
FmtFnDecl(node, indent) ==
  PubOf(node)
  \o (IF HasToken(node, "KwAsync") THEN <<K("KwAsync", "async"), Sp>> ELSE <<>>)
  \o <<K("KwFn", "fn"), Sp>> \o NameOf(node)
  \o ParamsOf(FindKind(Children(node), "ParamList"))
  \o ReturnTypeOf(FmtFindReturnType(node))
  \o EffectsOf(FindKind(Children(node), "EffectSet"))
  \o BodyOf(FindKind(Children(node), "Block"), indent)

\* Formatter::item
FmtItem(node, indent) ==
  CASE node.kind = "ModuleDecl" -> FmtModuleDecl(node)
    [] node.kind = "UseDecl" -> FmtUseDecl(node)
    [] node.kind = "FnDecl" -> FmtFnDecl(node, indent)
    [] node.kind = "StructDecl" -> FmtStructDecl(node, indent)
    [] node.kind = "EnumDecl" -> FmtEnumDecl(node, indent)
    [] OTHER -> <<>>

ItemKinds == {"ModuleDecl", "UseDecl", "FnDecl", "StructDecl", "EnumDecl"}

IsItem(n) == n.kind \in ItemKinds

\* Formatter::root: a blank line between the items
FmtRoot(node) ==
  LET items == SelectSeq(Children(node), IsItem)
  IN Flatten([i \in 1..Len(items) |->
                (IF i = 1 THEN <<>> ELSE Newline(0) \o Newline(0)) \o FmtItem(items[i], 0)])

\* Formatter::finish: the text written, as its words
Finish(out) == [i \in 1..Len(out) |-> out[i].text]

\* format_source with a fault: the errors of the parse are not looked at.
FormatSourceIgnoringErrors(parse) ==
  [tag |-> "Ok", errors |-> <<>>, text |-> Finish(FmtRoot(Syntax(parse)))]

\* format_source, lines 11-17, for the result `parse` of parse(source)
FormatSource(parse) ==
  IF parse.errors # <<>>
  THEN [tag |-> "Err", errors |-> parse.errors, text |-> <<>>]
  ELSE [tag |-> "Ok", errors |-> <<>>, text |-> Finish(FmtRoot(Syntax(parse)))]

\* ------------------------------------------------------------------------
\* jalm_effectcheck.  The scan of effects_used_in works on the characters of
\* the text, whatever the tokens are.

\* The characters of each word of the model's texts.
Chars ==
  ("a" :> <<"a">>) @@ ("b" :> <<"b">>) @@ ("c" :> <<"c">>) @@ ("f" :> <<"f">>) @@
  ("g" :> <<"g">>) @@ ("x" :> <<"x">>) @@ ("y" :> <<"y">>) @@ ("foo" :> <<"f", "o", "o">>) @@
  ("bar" :> <<"b", "a", "r">>) @@ ("baz" :> <<"b", "a", "z">>) @@
  ("add" :> <<"a", "d", "d">>) @@ ("path" :> <<"p", "a", "t", "h">>) @@
  ("read" :> <<"r", "e", "a", "d">>) @@ ("fs" :> <<"f", "s">>) @@
  ("crate" :> <<"c", "r", "a", "t", "e">>) @@ ("User" :> <<"U", "s", "e", "r">>) @@
  ("id" :> <<"i", "d">>) @@ ("Opt" :> <<"O", "p", "t">>) @@
  ("Some" :> <<"S", "o", "m", "e">>) @@ ("None" :> <<"N", "o", "n", "e">>) @@
  ("i64" :> <<"i", "6", "4">>) @@ ("bool" :> <<"b", "o", "o", "l">>) @@
  ("i32" :> <<"i", "3", "2">>) @@ ("string" :> <<"s", "t", "r", "i", "n", "g">>) @@
  ("main" :> <<"m", "a", "i", "n">>) @@ ("nope" :> <<"n", "o", "p", "e">>) @@
  ("io" :> <<"i", "o">>) @@ ("net" :> <<"n", "e", "t">>) @@
  ("http" :> <<"h", "t", "t", "p">>) @@ ("time" :> <<"t", "i", "m", "e">>) @@
  ("rand" :> <<"r", "a", "n", "d">>) @@ ("log" :> <<"l", "o", "g">>) @@
  ("ffi" :> <<"f", "f", "i">>) @@ ("dfs" :> <<"d", "f", "s">>) @@
  ("serve" :> <<"s", "e", "r", "v", "e">>) @@ ("0" :> <<"0">>) @@ ("1" :> <<"1">>) @@
  ("2" :> <<"2">>) @@ ("3" :> <<"3">>) @@ (" " :> <<" ">>) @@ ("  " :> <<" ", " ">>) @@
  ("\n" :> <<"\n">>) @@ ("\n  " :> <<"\n", " ", " ">>) @@ ("/*c*/" :> <<"/", "*", "c", "*", "/">>) @@
  ("/*fs::*/" :> <<"/", "*", "f", "s", ":", ":", "*", "/">>) @@
  ("/*net::net::*/" :> <<"/", "*", "n", "e", "t", ":", ":", "n", "e", "t", ":", ":", "*", "/">>) @@
  ("mod" :> <<"m", "o", "d">>) @@ ("use" :> <<"u", "s", "e">>) @@ ("fn" :> <<"f", "n">>) @@
  ("async" :> <<"a", "s", "y", "n", "c">>) @@ ("struct" :> <<"s", "t", "r", "u", "c", "t">>) @@
  ("enum" :> <<"e", "n", "u", "m">>) @@ ("match" :> <<"m", "a", "t", "c", "h">>) @@
  ("if" :> <<"i", "f">>) @@ ("else" :> <<"e", "l", "s", "e">>) @@
  ("for" :> <<"f", "o", "r">>) @@ ("return" :> <<"r", "e", "t", "u", "r", "n">>) @@
  ("let" :> <<"l", "e", "t">>) @@ ("mut" :> <<"m", "u", "t">>) @@
  ("true" :> <<"t", "r", "u", "e">>) @@ ("false" :> <<"f", "a", "l", "s", "e">>) @@
  ("as" :> <<"a", "s">>) @@ ("pub" :> <<"p", "u", "b">>) @@ ("_" :> <<"_">>) @@
  ("(" :> <<"(">>) @@ (")" :> <<")">>) @@ ("{" :> <<"{">>) @@ ("}" :> <<"}">>) @@
  ("," :> <<",">>) @@ (";" :> <<";">>) @@ (":" :> <<":">>) @@ ("." :> <<".">>) @@
  ("::" :> <<":", ":">>) @@ ("->" :> <<"-", ">">>) @@ ("=>" :> <<"=", ">">>) @@
  ("?" :> <<"?">>) @@ ("!" :> <<"!">>) @@ ("+" :> <<"+">>) @@ ("-" :> <<"-">>) @@
  ("*" :> <<"*">>) @@ ("/" :> <<"/">>) @@ ("%" :> <<"%">>) @@ ("=" :> <<"=">>) @@
  ("==" :> <<"=", "=">>) @@ ("!=" :> <<"!", "=">>) @@ ("<=" :> <<"<", "=">>) @@
  ("<" :> <<"<">>) @@ (">=" :> <<">", "=">>) @@ (">" :> <<">">>) @@ ("&&" :> <<"&", "&">>) @@
  ("||" :> <<"|", "|">>) @@ ("@" :> <<"@">>)

\* node.text().to_string(), as characters
CharsOf(node) ==
  LET toks == Tokens(node)
  IN Flatten([i \in 1..Len(toks) |-> Chars[toks[i].text]])

\* effects_used_in, lines 74-82: the prefixes in the order they are scanned
\* for, each with the effect it stands for
EffectPrefixes ==
  LET Prefix(word, effect) == [prefix |-> Chars[word] \o Chars["::"], effect |-> effect]
  IN << Prefix("fs", "fs"), Prefix("net", "net"), Prefix("http", "net"),
        Prefix("time", "time"), Prefix("rand", "rand"), Prefix("log", "io"),
        Prefix("ffi", "ffi") >>

\* text[offset..].find(prefix): Some of the position of the first occurrence
\* of prefix in the text from offset on, counted from offset
StrFind(text, offset, prefix) ==
  LET n == Len(prefix)
      hits == {i \in offset..(Len(text) - n) : SubSeq(text, i + 1, i + n) = prefix}
  IN IF hits = {} THEN <<>>
     ELSE <<(CHOOSE i \in hits : \A j \in hits : i <= j) - offset>>

\* The same with a fault: `if let` for `while let`, the scan for a prefix
\* stops at its first occurrence.
ScanPrefixOnce(text, base, entry, offset) ==
  LET pos == StrFind(text, offset, entry.prefix)
  IN IF pos = <<>> THEN <<>>
     ELSE LET start == base + offset + pos[1]
          IN <<[effect |-> entry.effect, start |-> start,
                end |-> start + Len(entry.prefix)]>>

RECURSIVE ScanPrefix(_, _, _, _)
\* effects_used_in, lines 83-89: the occurrences of one prefix from offset on
ScanPrefix(text, base, entry, offset) ==
  LET pos == StrFind(text, offset, entry.prefix)
  IN IF pos = <<>> THEN <<>>
     ELSE LET start == base + offset + pos[1]
          IN <<[effect |-> entry.effect, start |-> start,
                end |-> start + Len(entry.prefix)]>>
             \o ScanPrefix(text, base, entry, offset + pos[1] + Len(entry.prefix))

\* effects_used_in
EffectsUsedIn(node) ==
  Flatten([k \in 1..Len(EffectPrefixes) |->
             ScanPrefix(CharsOf(node), node.start, EffectPrefixes[k], 0)])

\* find_ident_text of the effect checker: the first Ident token of the node
FindIdentText(node) ==
  LET IsIdent(e) == ~IsNode(e) /\ e.kind = "Ident"
      tok == Find(node.children, IsIdent)
  IN IF tok = <<>> THEN <<>> ELSE <<tok[1].text>>

\* declared_effects, lines 58-63: the names that are effects
KnownEffects == {"io", "net", "fs", "time", "rand", "ffi"}

\* declared_effects
DeclaredEffects(node) ==
  LET set == FindKind(Children(node), "EffectSet")
      idents == IF set = <<>> THEN <<>> ELSE SelectSeq(Children(set[1]), IsIdentNode)
      names == {FindIdentText(idents[i]) : i \in 1..Len(idents)}
  IN {name[1] : name \in names \ {<<>>}} \cap KnownEffects

\* check_fn of the effect checker: the diagnostics pushed for one FnDecl
EffectCheckFn(node) ==
  LET declared == DeclaredEffects(node)
      block == FindKind(Children(node), "Block")
      Undeclared(used) == used.effect \notin declared
      found == IF block = <<>> THEN <<>>
               ELSE SelectSeq(EffectsUsedIn(block[1]), Undeclared)
  IN [i \in 1..Len(found) |->
        [code |-> "E1001", message |-> "undeclared effect", start |-> found[i].start,
         end |-> found[i].end, required |-> found[i].effect]]

IsFnDecl(e) == e.kind = "FnDecl"

\* jalm_effectcheck::check, lines 28-34, for the root of the parse
EffectCheckRoot(root) ==
  LET fns == SelectSeq(Children(root), IsFnDecl)
  IN Flatten([i \in 1..Len(fns) |-> EffectCheckFn(fns[i])])

\* ------------------------------------------------------------------------
\* jalm_codegen.  A ValType is "I64" or "I32"; a (name, type) pair is a
\* two-element tuple; instructions are tuples of their name and operand.

\* map_type, for the node whose text is mapped (text.trim() is the text
\* without the Whitespace tokens at its ends)
MapType(node) ==
  LET text == TrimmedText(node)
  IN CASE text = "i64" -> <<"I64">>
       [] text = "i32" -> <<"I32">>
       [] text = "bool" -> <<"I32">>
       [] OTHER -> <<>>

\* find_ident_text of the code generator: the first Ident token among the
\* descendants of the node
CgFindIdentText(node) ==
  LET IsIdent(t) == t.kind = "Ident"
      tok == Find(Tokens(node), IsIdent)
  IN IF tok = <<>> THEN <<>> ELSE <<tok[1].text>>

\* find_return_type of the code generator: the Type node after the arrow
CgFindReturnType(node) ==
  FindKind(SelectSeq(AfterToken(node.children, "Arrow"), IsNode), "Type")

\* is_bin_op
IsBinOp(kind) ==
  kind \in {"Plus", "Minus", "Star", "Slash", "EqEq", "Neq", "Lt", "Lte", "Gt", "Gte"}

\* str::parse::<i64> on the Int texts of the model
ParseI64(text) ==
  CASE text = "0" -> <<0>>
    [] text = "1" -> <<1>>
    [] text = "2" -> <<2>>
    [] text = "3" -> <<3>>
    [] OTHER -> <<>>

\* lower_expr, lines 211-223: the first token of a LiteralNode decides
LowerLiteral(node) ==
  LET IsToken(e) == ~IsNode(e)
      tok == Find(node.children, IsToken)
  IN IF tok = <<>> THEN <<>>
     ELSE CASE tok[1].kind = "Int" ->
                 LET v == ParseI64(tok[1].text)
                 IN IF v = <<>> THEN <<>> ELSE <<[tag |-> "Int", v |-> v[1]]>>
            [] tok[1].kind = "KwTrue" -> <<[tag |-> "Bool", v |-> TRUE]>>
            [] tok[1].kind = "KwFalse" -> <<[tag |-> "Bool", v |-> FALSE]>>
            [] OTHER -> <<>>

RECURSIVE LowerExpr(_)
\* lower_expr: Some(Expr) or None
LowerExpr(node) ==
  CASE node.kind = "LiteralNode" -> LowerLiteral(node)
    [] node.kind = "IdentNode" ->
         LET name == CgFindIdentText(node)
         IN IF name = <<>> THEN <<>> ELSE <<[tag |-> "Ident", name |-> name[1]]>>
    [] node.kind = "BinExpr" ->
         LET kids == Children(node)
             lhs == IF Len(kids) < 1 THEN <<>> ELSE LowerExpr(kids[1])
             rhs == IF Len(kids) < 2 THEN <<>> ELSE LowerExpr(kids[2])
             IsOp(e) == ~IsNode(e) /\ IsBinOp(e.kind)
             op == Find(node.children, IsOp)
         IN IF lhs = <<>> \/ rhs = <<>> \/ op = <<>> THEN <<>>
            ELSE <<[tag |-> "Bin", op |-> op[1].kind, lhs |-> lhs[1], rhs |-> rhs[1]]>>
    [] node.kind = "CallExpr" ->
         LET kids == Children(node)
             name == IF kids = <<>> THEN <<>> ELSE CgFindIdentText(kids[1])
         IN IF name = <<>> THEN <<>>
            ELSE <<[tag |-> "Call", name |-> name[1],
                    args |-> Flatten([i \in 1..(Len(kids) - 1) |-> LowerExpr(kids[i + 1])])]>>
    [] node.kind = "ParenExpr" ->
         LET inner == Find(Children(node), IsExprNode)
         IN IF inner = <<>> THEN <<>> ELSE LowerExpr(inner[1])
    [] OTHER -> <<>>

\* The first expression child of a statement, lowered
LowerExprOf(stmt) ==
  LET expr == Find(Children(stmt), IsExprNode)
  IN IF expr = <<>> THEN <<>> ELSE LowerExpr(expr[1])

\* lower_block, lines 154-167: [locals, out] pushed for a LetStmt
LowerLet(stmt) ==
  LET pat == FindKind(Children(stmt), "Pattern")
      name == IF pat = <<>> THEN <<>> ELSE CgFindIdentText(pat[1])
      expr == LowerExprOf(stmt)
      tn == FindKind(Children(stmt), "Type")
      ty == IF tn = <<>> THEN <<>> ELSE MapType(tn[1])
  IN IF name = <<>> \/ expr = <<>> THEN [locals |-> <<>>, out |-> <<>>]
     ELSE [locals |-> << <<name[1], IF ty = <<>> THEN "I64" ELSE ty[1]>> >>,
           out |-> <<[tag |-> "Let", name |-> name[1], expr |-> expr[1]]>>]

RECURSIVE LowerBlock(_)
RECURSIVE LowerIf(_)
RECURSIVE LowerStmt(_)

\* lower_block, lines 153-184: [locals, out] pushed for one child of the
\* StmtList; any other kind of child, a tail expression included, pushes
\* nothing
LowerStmt(stmt) ==
  CASE stmt.kind = "LetStmt" -> LowerLet(stmt)
    [] stmt.kind = "ReturnStmt" ->
         LET expr == LowerExprOf(stmt)
         IN [locals |-> <<>>,
             out |-> IF expr = <<>> THEN <<>> ELSE <<[tag |-> "Return", expr |-> expr[1]]>>]
    [] stmt.kind = "IfExpr" -> [locals |-> <<>>, out |-> LowerIf(stmt)]
    [] stmt.kind = "ExprStmt" ->
         LET expr == LowerExprOf(stmt)
         IN [locals |-> <<>>,
             out |-> IF expr = <<>> THEN <<>> ELSE <<[tag |-> "Expr", expr |-> expr[1]]>>]
    [] OTHER -> [locals |-> <<>>, out |-> <<>>]

\* lower_block: what it appends to locals and to out
LowerBlock(node) ==
  LET list == FindKind(Children(node), "StmtList")
      stmts == IF list = <<>> THEN <<>> ELSE Children(list[1])
      each == [i \in 1..Len(stmts) |-> LowerStmt(stmts[i])]
  IN [locals |-> Flatten([i \in 1..Len(each) |-> each[i].locals]),
      out |-> Flatten([i \in 1..Len(each) |-> each[i].out])]

\* lower_if: Some(Stmt::If) or None; the locals of its blocks are dropped
LowerIf(node) ==
  LET kids == Children(node)
      cond == IF Len(kids) < 1 THEN <<>> ELSE LowerExpr(kids[1])
  IN IF cond = <<>> \/ Len(kids) < 2 THEN <<>>
     ELSE <<[tag |-> "If", cond |-> cond[1],
             then_body |-> LowerBlock(kids[2]).out,
             else_body |-> IF Len(kids) < 3 THEN <<>>
                           ELSE IF kids[3].kind = "IfExpr" THEN LowerIf(kids[3])
                           ELSE LowerBlock(kids[3]).out]>>

\* lower_params, lines 140-145: the pair pushed for one Param
LowerParam(param) ==
  LET id == FindKind(Children(param), "IdentNode")
      name == IF id = <<>> THEN <<>> ELSE CgFindIdentText(id[1])
      tn == FindKind(Children(param), "Type")
      ty == IF tn = <<>> THEN <<>> ELSE MapType(tn[1])
  IN IF name = <<>> \/ ty = <<>> THEN <<>> ELSE << <<name[1], ty[1]>> >>

\* lower_params
LowerParams(node) ==
  LET params == SelectSeq(Children(node), IsParamNode)
  IN Flatten([i \in 1..Len(params) |-> LowerParam(params[i])])

\* lower_fn: Some(FnDef) or None
LowerFn(node) ==
  LET id == FindKind(Children(node), "IdentNode")
      name == IF id = <<>> THEN <<>> ELSE CgFindIdentText(id[1])
      list == FindKind(Children(node), "ParamList")
      rt == CgFindReturnType(node)
      block == FindKind(Children(node), "Block")
      lowered == IF block = <<>> THEN [locals |-> <<>>, out |-> <<>>]
                 ELSE LowerBlock(block[1])
  IN IF name = <<>> THEN <<>>
     ELSE <<[name |-> name[1],
             params |-> IF list = <<>> THEN <<>> ELSE LowerParams(list[1]),
             locals |-> lowered.locals,
             body |-> lowered.out,
             ret |-> IF rt = <<>> THEN <<>> ELSE MapType(rt[1])]>>

\* collect_functions
CollectFunctions(root) ==
  LET fns == SelectSeq(Children(root), IsFnDecl)
  IN Flatten([i \in 1..Len(fns) |-> LowerFn(fns[i])])

\* struct Diagnostic of the code generator
CgDiagnostic(code, message) == [code |-> code, message |-> message]

\* signature_from_fn, lines 252-261: the diagnostics it pushes
SignatureDiagnostics(f) ==
  LET NotI64(param) == param[2] # "I64"
      bad == SelectSeq(f.params, NotI64)
  IN [i \in 1..Len(bad) |-> CgDiagnostic("E2002", "only i64 params supported")]
     \o (IF f.ret # <<>> /\ f.ret[1] # "I64"
         THEN <<CgDiagnostic("E2003", "only i64 return supported")>> ELSE <<>>)

\* signature_from_fn, lines 262-265: (params, results)
SignatureFromFn(f) ==
  [params |-> [i \in 1..Len(f.params) |-> f.params[i][2]], results |-> <<"I64">>]

\* EmitCtx::local_index: Some(index) or None, the parameters first
LocalIndex(ctx, name) ==
  LET all == ctx.params \o ctx.locals
      at == {i \in 1..Len(all) : all[i][1] = name}
  IN IF at = {} THEN <<>> ELSE <<(CHOOSE i \in at : \A j \in at : i <= j) - 1>>

\* emit_expr, lines 320-331: the instruction of an operator
BinInstruction(op) ==
  CASE op = "Plus" -> <<"I64Add">>
    [] op = "Minus" -> <<"I64Sub">>
    [] op = "Star" -> <<"I64Mul">>
    [] op = "Slash" -> <<"I64DivS">>
    [] op = "EqEq" -> <<"I64Eq">>
    [] op = "Neq" -> <<"I64Ne">>
    [] op = "Lt" -> <<"I64LtS">>
    [] op = "Lte" -> <<"I64LeS">>
    [] op = "Gt" -> <<"I64GtS">>
    [] op = "Gte" -> <<"I64GeS">>
    [] OTHER -> <<>>

\* What an emission appends: instructions to the body, diagnostics to ctx
Emitted(ins, diags) == [ins |-> ins, diags |-> diags]

EmitSeq(a, b) == Emitted(a.ins \o b.ins, a.diags \o b.diags)

RECURSIVE EmitAll(_)
EmitAll(parts) ==
  IF parts = <<>> THEN Emitted(<<>>, <<>>)
  ELSE EmitSeq(Head(parts), EmitAll(Tail(parts)))

RECURSIVE EmitExpr(_, _)
\* emit_expr
EmitExpr(ctx, expr) ==
  CASE expr.tag = "Int" -> Emitted(<< <<"I64Const", expr.v>> >>, <<>>)
    [] expr.tag = "Bool" -> Emitted(<< <<"I32Const", IF expr.v THEN 1 ELSE 0>> >>, <<>>)
    [] expr.tag = "Ident" ->
         LET idx == LocalIndex(ctx, expr.name)
         IN IF idx # <<>> THEN Emitted(<< <<"LocalGet", idx[1]>> >>, <<>>)
            ELSE Emitted(<< <<"I64Const", 0>> >>,
                         <<CgDiagnostic("E2004", "unknown local " \o expr.name)>>)
    [] expr.tag = "Bin" ->
         EmitAll(<<EmitExpr(ctx, expr.lhs), EmitExpr(ctx, expr.rhs),
                   Emitted(<<BinInstruction(expr.op)>>, <<>>)>>)
    [] expr.tag = "Call" ->
         EmitSeq(EmitAll([i \in 1..Len(expr.args) |-> EmitExpr(ctx, expr.args[i])]),
                 IF expr.name \in DOMAIN ctx.func_indices
                 THEN Emitted(<< <<"Call", ctx.func_indices[expr.name]>> >>, <<>>)
                 ELSE Emitted(<< <<"I64Const", 0>> >>,
                              <<CgDiagnostic("E2005", "unknown function " \o expr.name)>>))

RECURSIVE EmitStmt(_, _)
\* emit_stmt
EmitStmt(ctx, stmt) ==
  CASE stmt.tag = "Let" ->
         LET idx == LocalIndex(ctx, stmt.name)
         IN EmitSeq(EmitExpr(ctx, stmt.expr),
                    Emitted(IF idx = <<>> THEN <<>> ELSE << <<"LocalSet", idx[1]>> >>, <<>>))
    [] stmt.tag = "Return" ->
         EmitSeq(EmitExpr(ctx, stmt.expr), Emitted(<< <<"Return">> >>, <<>>))
    [] stmt.tag = "Expr" ->
         EmitSeq(EmitExpr(ctx, stmt.expr), Emitted(<< <<"Drop">> >>, <<>>))
    [] stmt.tag = "If" ->
         EmitAll(<<EmitExpr(ctx, stmt.cond), Emitted(<< <<"If">> >>, <<>>),
                   EmitAll([i \in 1..Len(stmt.then_body) |-> EmitStmt(ctx, stmt.then_body[i])]),
                   IF stmt.else_body = <<>> THEN Emitted(<<>>, <<>>)
                   ELSE EmitSeq(Emitted(<< <<"Else">> >>, <<>>),
                                EmitAll([i \in 1..Len(stmt.else_body) |->
                                           EmitStmt(ctx, stmt.else_body[i])])),
                   Emitted(<< <<"End">> >>, <<>>)>>)

\* compile_to_wasm, lines 35-37: the index of each name, a later function of
\* the same name replacing the earlier
FuncIndices(functions) ==
  [name \in {functions[i].name : i \in 1..Len(functions)} |->
     (CHOOSE i \in 1..Len(functions) :
        /\ functions[i].name = name
        /\ \A j \in 1..Len(functions) : functions[j].name = name => j <= i) - 1]

\* compile_to_wasm, lines 40-63, for one function: the diagnostics pushed
\* and the entries added to the sections
CompileFn(func_indices, f) ==
  LET ctx == [func_indices |-> func_indices, locals |-> f.locals, params |-> f.params]
      body == EmitAll([i \in 1..Len(f.body) |-> EmitStmt(ctx, f.body[i])])
  IN [diags |-> SignatureDiagnostics(f) \o body.diags,
      type |-> SignatureFromFn(f),
      code |-> [locals |-> [i \in 1..Len(f.locals) |-> f.locals[i][2]],
                ins |-> body.ins
                        \o (IF f.ret = <<"I64">> THEN <<>> ELSE << <<"I64Const", 0>> >>)
                        \o << <<"End">> >>],
      exports |-> IF f.name = "main" THEN << <<"main", func_indices["main"]>> >> ELSE <<>>]

NoModule == [types |-> <<>>, funcs |-> <<>>, exports |-> <<>>, code |-> <<>>]

CgErr(diags) == [tag |-> "Err", module |-> NoModule, diagnostics |-> diags]

\* compile_to_wasm, lines 39-75: every function is compiled, and the module
\* is finished when no diagnostic was pushed
CompileFunctions(functions) ==
  LET each == [i \in 1..Len(functions) |-> CompileFn(FuncIndices(functions), functions[i])]
      diags == Flatten([i \in 1..Len(each) |-> each[i].diags])
  IN IF diags = <<>>
     THEN [tag |-> "Ok", diagnostics |-> <<>>,
           module |-> [types |-> [i \in 1..Len(each) |-> each[i].type],
                       funcs |-> [i \in 1..Len(each) |-> i - 1],
                       exports |-> Flatten([i \in 1..Len(each) |-> each[i].exports]),
                       code |-> [i \in 1..Len(each) |-> each[i].code]]]
     ELSE CgErr(diags)

CompileToWasmIgnoringParseErrors(parse) ==
  LET functions == CollectFunctions(Syntax(parse))
  IN IF functions = <<>>
     THEN CgErr(<<CgDiagnostic("E2001", "no functions found")>>)
     ELSE CompileFunctions(functions)

\* compile_to_wasm, for the result `parse` of parse(source)
CompileToWasm(parse) ==
  IF parse.errors # <<>>
  THEN CgErr([i \in 1..Len(parse.errors) |->
                CgDiagnostic("E2000", parse.errors[i].message)])
  ELSE LET functions == CollectFunctions(Syntax(parse))
       IN IF functions = <<>>
          THEN CgErr(<<CgDiagnostic("E2001", "no functions found")>>)
          ELSE CompileFunctions(functions)

\* ------------------------------------------------------------------------
\* jalm_runtime.  usize is UsizeBits wide, and the heap and the page are
\* scaled down with it.  A pointer is its address, null is 0.  The build
\* decides what the source leaves open: the target, whether arithmetic
\* overflow panics (overflow-checks, on in debug builds) or wraps, where the
\* heap starts, and how far the WASM memory can grow.

UsizeBits == 8
ALIGN == 8
HEAP_SIZE == 32
PAGE_SIZE == 64
MaxCalls == 3

UsizeMax == 2^UsizeBits - 1

Wrapping(n) == n % (UsizeMax + 1)

\* a + b in usize: it panics under overflow checks and wraps without them
Add(a, b) ==
  IF a + b > UsizeMax THEN [panic |-> build.overflow_checks, value |-> Wrapping(a + b)]
  ELSE [panic |-> FALSE, value |-> a + b]

\* a - b in usize
Sub(a, b) ==
  IF a < b THEN [panic |-> build.overflow_checks, value |-> Wrapping(a - b)]
  ELSE [panic |-> FALSE, value |-> a - b]

\* align_up
AlignUp(value) ==
  LET sum == Add(value, ALIGN - 1)
  IN [panic |-> sum.panic, value |-> sum.value - (sum.value % ALIGN)]

\* heap_base: the address of HEAP, or of the linker's __heap_base
HeapBase == build.heap_base

\* ensure_memory on wasm32, for a memory of pgs pages: [panic, ok, pages]
EnsureMemoryWasm(pgs, end) ==
  LET sum == Add(end, PAGE_SIZE)
      top == Sub(sum.value, 1)
      needed_pages == top.value \div PAGE_SIZE
  IN IF sum.panic \/ top.panic THEN [panic |-> TRUE, ok |-> FALSE, pages |-> pgs]
     ELSE IF needed_pages <= pgs THEN [panic |-> FALSE, ok |-> TRUE, pages |-> pgs]
     ELSE IF needed_pages <= build.max_pages
     THEN [panic |-> FALSE, ok |-> TRUE, pages |-> needed_pages]
     ELSE [panic |-> FALSE, ok |-> FALSE, pages |-> pgs]

\* ensure_memory of the build's target
EnsureMemory(pgs, end) ==
  IF build.target = "wasm32" THEN EnsureMemoryWasm(pgs, end)
  ELSE [panic |-> FALSE, ok |-> end <= HeapBase + HEAP_SIZE, pages |-> pgs]

\* The addresses of the heap: the HEAP array, or the linear memory from
\* __heap_base up to the end of its last page
Heap(pgs) ==
  IF build.target = "wasm32" THEN HeapBase..(pgs * PAGE_SIZE - 1)
  ELSE HeapBase..(HeapBase + HEAP_SIZE - 1)

\* memory.grow: the pages added are zeroed
Grown(mem, pgs) == [a \in Heap(pgs) |-> IF a \in DOMAIN mem THEN mem[a] ELSE 0]

\* What a call leaves behind: whether it ended in a panic or trap, the
\* pointer it returned, and the cursor, the page count and the heap after it
Outcome(panic, ptr, next, pgs, mem) ==
  [panic |-> panic, ptr |-> ptr, NEXT |-> next, pages |-> pgs, memory |-> mem]

\* jalm_alloc, with the cursor at next and pgs pages of memory mem
JalmAlloc(next, pgs, mem, size) ==
  LET request == AlignUp(IF size < 1 THEN 1 ELSE size)
      current == IF next = 0 THEN HeapBase ELSE next
      start == AlignUp(current)
      end == start.value + request.value
      ensured == EnsureMemory(pgs, end)
  IN IF request.panic \/ start.panic THEN Outcome(TRUE, 0, next, pgs, mem)
     ELSE IF end > UsizeMax THEN Outcome(FALSE, 0, next, pgs, mem)
     ELSE IF ensured.panic THEN Outcome(TRUE, 0, next, pgs, mem)
     ELSE IF ~ensured.ok THEN Outcome(FALSE, 0, next, pgs, mem)
     ELSE Outcome(FALSE, start.value, end, ensured.pages, Grown(mem, ensured.pages))

\* The bytes at src..src+len written to dst..dst+len
Copied(mem, dst, src, len) ==
  [a \in DOMAIN mem |->
     IF a >= dst /\ a < dst + len /\ (a - dst + src) \in DOMAIN mem
     THEN mem[a - dst + src] ELSE mem[a]]

\* core::ptr::copy_nonoverlapping: the outcomes [panic, memory].  An access
\* outside the memory traps on wasm32; on other targets it is undefined, and
\* the build either faults or writes what lies inside the heap.
CopyNonoverlapping(mem, src, dst, len) ==
  LET touched == {src + i : i \in 0..(len - 1)} \cup {dst + i : i \in 0..(len - 1)}
  IN IF touched \subseteq DOMAIN mem
     THEN {[panic |-> FALSE, memory |-> Copied(mem, dst, src, len)]}
     ELSE IF build.target = "wasm32" THEN {[panic |-> TRUE, memory |-> mem]}
     ELSE {[panic |-> TRUE, memory |-> mem],
           [panic |-> FALSE, memory |-> Copied(mem, dst, src, len)]}

\* core::ptr::write_bytes: the outcomes [panic, memory]
WriteBytes(mem, dst, value, len) ==
  LET written == [a \in DOMAIN mem |-> IF a >= dst /\ a < dst + len THEN value ELSE mem[a]]
  IN IF {dst + i : i \in 0..(len - 1)} \subseteq DOMAIN mem
     THEN {[panic |-> FALSE, memory |-> written]}
     ELSE IF build.target = "wasm32" THEN {[panic |-> TRUE, memory |-> mem]}
     ELSE {[panic |-> TRUE, memory |-> mem], [panic |-> FALSE, memory |-> written]}

Min(a, b) == IF a < b THEN a ELSE b

\* jalm_realloc: the outcomes
JalmRealloc(next, pgs, mem, ptr, old_size, new_size) ==
  IF ptr = 0 THEN {JalmAlloc(next, pgs, mem, new_size)}
  ELSE IF new_size = 0 THEN {Outcome(FALSE, 0, next, pgs, mem)}
  ELSE LET new == JalmAlloc(next, pgs, mem, new_size)
       IN IF new.panic \/ new.ptr = 0 THEN {new}
          ELSE {Outcome(c.panic, IF c.panic THEN 0 ELSE new.ptr, new.NEXT, new.pages,
                        c.memory) :
                  c \in CopyNonoverlapping(new.memory, ptr, new.ptr,
                                           Min(old_size, new_size))}

\* jalm_bytes_alloc
JalmBytesAlloc(next, pgs, mem, len) == JalmAlloc(next, pgs, mem, len)

\* jalm_bytes_clone: the outcomes
JalmBytesClone(next, pgs, mem, src, len) ==
  IF src = 0 THEN {Outcome(FALSE, 0, next, pgs, mem)}
  ELSE LET dst == JalmAlloc(next, pgs, mem, len)
       IN IF dst.panic \/ dst.ptr = 0 THEN {dst}
          ELSE {Outcome(c.panic, IF c.panic THEN 0 ELSE dst.ptr, dst.NEXT, dst.pages,
                        c.memory) :
                  c \in CopyNonoverlapping(dst.memory, src, dst.ptr, len)}

\* jalm_memcpy: the outcomes
JalmMemcpy(next, pgs, mem, dst, src, len) ==
  IF dst = 0 \/ src = 0 THEN {Outcome(FALSE, 0, next, pgs, mem)}
  ELSE {Outcome(c.panic, IF c.panic THEN 0 ELSE dst, next, pgs, c.memory) :
          c \in CopyNonoverlapping(mem, src, dst, len)}

\* jalm_memset: the outcomes
JalmMemset(next, pgs, mem, dst, value, len) ==
  IF dst = 0 THEN {Outcome(FALSE, 0, next, pgs, mem)}
  ELSE {Outcome(c.panic, IF c.panic THEN 0 ELSE dst, next, pgs, c.memory) :
          c \in WriteBytes(mem, dst, value, len)}

\* The requests of the callers: the least, one word and a little more, more
\* than the heap holds, and the sizes at the top of usize
Sizes ==
  {0, 1, ALIGN, ALIGN + 1, HEAP_SIZE + 1, UsizeMax - PAGE_SIZE, UsizeMax - ALIGN,
   UsizeMax - (ALIGN - 1), UsizeMax - (ALIGN - 2), UsizeMax}

Lens == {1, ALIGN + 1, UsizeMax}

Values == {1, 170}

\* The builds: a HEAP array at an aligned and at an odd address, and a WASM
\* memory of one page that may grow to max_pages
Builds ==
  {[target |-> "native", overflow_checks |-> oc, heap_base |-> hb, max_pages |-> 0] :
     oc \in BOOLEAN, hb \in {2 * ALIGN, 2 * ALIGN + 5}}
  \cup {[target |-> "wasm32", overflow_checks |-> oc, heap_base |-> 2 * ALIGN,
         max_pages |-> mp] : oc \in BOOLEAN, mp \in {1, 2}}

NoCall ==
  [op |-> "none", ptr |-> 0, old |-> 0, size |-> 0, result |-> 0, panic |-> FALSE,
   NEXT |-> 0, pages |-> 0, memory |-> <<>>]

\* The threads that call jalm_alloc at the same time
Callers == {1, 2}

\* A caller outside jalm_alloc.  Inside, it holds the size it asked for and
\* the locals size, current, start and end.
Outside ==
  [at |-> "outside", asked |-> 0, size |-> 0, current |-> 0, start |-> 0, end |-> 0]

NoCallers == [c \in Callers |-> Outside]

\* The compiler's run does not touch the runtime
RuntimeIdle ==
  /\ build = [target |-> "native", overflow_checks |-> TRUE, heap_base |-> 2 * ALIGN,
              max_pages |-> 0]
  /\ NEXT = 0
  /\ pages = 0
  /\ memory = <<>>
  /\ regions = <<>>
  /\ last = NoCall
  /\ calls = 0
  /\ callers = NoCallers

\* A call of the emitted program has returned, or has ended the program: the
\* allocator's state after it, the regions handed out so far, and the call
\* with the state it found
Returned(op, allocates, ptr, old, size, o) ==
  /\ NEXT' = o.NEXT
  /\ pages' = o.pages
  /\ memory' = o.memory
  /\ regions' = IF allocates /\ ~o.panic /\ o.ptr # 0
                THEN Append(regions, [ptr |-> o.ptr, size |-> size]) ELSE regions
  /\ last' = [op |-> op, ptr |-> ptr, old |-> old, size |-> size, result |-> o.ptr,
              panic |-> o.panic, NEXT |-> NEXT, pages |-> pages, memory |-> memory]
  /\ calls' = calls + 1
  /\ UNCHANGED <<build, callers, compiler>>

CanCall == pc = "runtime" /\ calls < MaxCalls /\ ~last.panic

\* The pointers a caller holds, with the sizes it asked for
Held == {regions[i] : i \in 1..Len(regions)}

Alloc ==
  /\ CanCall
  /\ \E size \in Sizes :
       Returned("jalm_alloc", TRUE, 0, 0, size, JalmAlloc(NEXT, pages, memory, size))

Realloc ==
  /\ CanCall
  /\ \E r \in Held \cup {[ptr |-> 0, size |-> 0]}, new_size \in Sizes :
       \E o \in JalmRealloc(NEXT, pages, memory, r.ptr, r.size, new_size) :
         Returned("jalm_realloc", TRUE, r.ptr, r.size, new_size, o)

\* jalm_free
Free ==
  /\ CanCall
  /\ \E r \in Held :
       Returned("jalm_free", FALSE, r.ptr, 0, r.size, Outcome(FALSE, 0, NEXT, pages, memory))

BytesAlloc ==
  /\ CanCall
  /\ \E len \in Lens :
       Returned("jalm_bytes_alloc", TRUE, 0, 0, len, JalmBytesAlloc(NEXT, pages, memory, len))

BytesClone ==
  /\ CanCall
  /\ \E r \in Held \cup {[ptr |-> 0, size |-> 1]} :
       \E o \in JalmBytesClone(NEXT, pages, memory, r.ptr, r.size) :
         Returned("jalm_bytes_clone", TRUE, r.ptr, 0, r.size, o)

Memcpy ==
  /\ CanCall
  /\ \E d \in Held \cup {[ptr |-> 0, size |-> 1]}, s \in Held \cup {[ptr |-> 0, size |-> 1]} :
       /\ d.ptr # s.ptr \/ d.ptr = 0
       /\ \E o \in JalmMemcpy(NEXT, pages, memory, d.ptr, s.ptr, Min(d.size, s.size)) :
            Returned("jalm_memcpy", FALSE, d.ptr, s.ptr, Min(d.size, s.size), o)

Memset ==
  /\ CanCall
  /\ \E r \in Held \cup {[ptr |-> 0, size |-> 1]}, value \in Values :
       \E o \in JalmMemset(NEXT, pages, memory, r.ptr, value, r.size) :
         Returned("jalm_memset", FALSE, r.ptr, value, r.size, o)

\* jalm_panic
Panic ==
  /\ CanCall
  /\ Returned("jalm_panic", FALSE, 0, 0, 0, Outcome(TRUE, 0, NEXT, pages, memory))

\* A panic or a trap in one thread ends the program
ProgramAlive == pc = "concurrent" /\ \A c \in Callers : callers[c].at # "panicked"

\* jalm_alloc, lines 58-59: the request is aligned and NEXT is loaded
AllocLoad(c) ==
  /\ ProgramAlive
  /\ calls < MaxCalls
  /\ callers[c].at \in {"outside", "returned"}
  /\ \E size \in Sizes :
       LET request == AlignUp(IF size < 1 THEN 1 ELSE size)
       IN callers' = [callers EXCEPT ![c] =
            IF request.panic THEN [Outside EXCEPT !.at = "panicked"]
            ELSE [at |-> "loaded", asked |-> size, size |-> request.value,
                  current |-> NEXT, start |-> 0, end |-> 0]]
  /\ calls' = calls + 1
  /\ UNCHANGED <<build, NEXT, pages, memory, regions, last, compiler>>

\* jalm_alloc, lines 60-71: the bounds check.  start and end are computed
\* from the value loaded, and ensure_memory grows the memory when it has to;
\* the call returns null when the request does not fit.
AllocCheck(c) ==
  /\ ProgramAlive
  /\ callers[c].at = "loaded"
  /\ LET current == IF callers[c].current = 0 THEN HeapBase ELSE callers[c].current
         start == AlignUp(current)
         end == start.value + callers[c].size
         ensured == EnsureMemory(pages, end)
         null == [callers[c] EXCEPT !.at = "returned"]
     IN IF start.panic
        THEN callers' = [callers EXCEPT ![c].at = "panicked"] /\ UNCHANGED <<pages, memory>>
        ELSE IF end > UsizeMax
        THEN callers' = [callers EXCEPT ![c] = null] /\ UNCHANGED <<pages, memory>>
        ELSE IF ensured.panic
        THEN callers' = [callers EXCEPT ![c].at = "panicked"] /\ UNCHANGED <<pages, memory>>
        ELSE IF ~ensured.ok
        THEN callers' = [callers EXCEPT ![c] = null] /\ UNCHANGED <<pages, memory>>
        ELSE /\ callers' = [callers EXCEPT ![c].at = "checked", ![c].current = current,
                                           ![c].start = start.value, ![c].end = end]
             /\ pages' = ensured.pages
             /\ memory' = Grown(memory, ensured.pages)
  /\ UNCHANGED <<build, NEXT, regions, last, calls, compiler>>

\* jalm_alloc, lines 73-75: end is stored to NEXT and start is returned
AllocStore(c) ==
  /\ ProgramAlive
  /\ callers[c].at = "checked"
  /\ NEXT' = callers[c].end
  /\ regions' = IF callers[c].start # 0
                THEN Append(regions, [ptr |-> callers[c].start, size |-> callers[c].asked])
                ELSE regions
  /\ callers' = [callers EXCEPT ![c].at = "returned"]
  /\ UNCHANGED <<build, pages, memory, last, calls, compiler>>

\* ------------------------------------------------------------------------
\* The pipeline: parse(source), then jalm_typecheck::check,
\* jalm_effectcheck::check, compile_to_wasm and format_source on its result, then format_source
\* once more on the formatted text.

NoParse == [green |-> [kind |-> "", children |-> <<>>], errors |-> <<>>]
NoResult == [tag |-> "None", errors |-> <<>>, text |-> <<>>]

\* parse, lines 30-33: lex and call parse_root
StartParse(src) ==
  /\ p' = NewParser(ParseTokens(src))
  /\ stack' = <<Frame("parse_root", "entry")>>
  /\ pc' = "parsing"

\* parse, lines 34-40: parse_root has returned
ParseReturn ==
  /\ pc = "parsing" /\ stack = <<>>
  /\ parsed' = [green |-> BuildGreen(p.events), errors |-> p.errors]
  /\ pc' = "parsed"
  /\ UNCHANGED <<runtime, source, run, p, stack, ret, diagnostics, effect_diagnostics, wasm, fmt1, fmt2>>

\* check(source), after its parse
Check ==
  /\ pc = "parsed" /\ run = 1
  /\ diagnostics' = CheckRoot(NewChecker, Syntax(parsed)).diagnostics
  /\ pc' = "checked"
  /\ UNCHANGED <<runtime, source, run, p, stack, ret, parsed, effect_diagnostics, wasm, fmt1, fmt2>>

\* jalm_effectcheck::check(source), after its parse
EffectCheck ==
  /\ pc = "checked"
  /\ effect_diagnostics' = EffectCheckRoot(Syntax(parsed))
  /\ pc' = "effects_checked"
  /\ UNCHANGED <<runtime, source, run, p, stack, ret, parsed, diagnostics, wasm, fmt1, fmt2>>

\* compile_to_wasm(source), after its parse
Compile ==
  /\ pc = "effects_checked"
  /\ wasm' = CompileToWasm(parsed)
  /\ pc' = "compiled"
  /\ UNCHANGED <<runtime, source, run, p, stack, ret, parsed, diagnostics, effect_diagnostics, fmt1, fmt2>>

\* format_source(source), after its parse; an Ok text is formatted again
Format ==
  /\ pc = "compiled"
  /\ fmt1' = FormatSource(parsed)
  /\ IF fmt1'.tag = "Ok"
     THEN run' = 2 /\ StartParse(fmt1'.text)
     ELSE pc' = "done" /\ UNCHANGED <<run, p, stack>>
  /\ UNCHANGED <<runtime, source, ret, parsed, diagnostics, effect_diagnostics, wasm, fmt2>>

\* format_source(text of fmt1), after its parse
FormatAgain ==
  /\ pc = "parsed" /\ run = 2
  /\ fmt2' = FormatSource(parsed)
  /\ pc' = "done"
  /\ UNCHANGED <<runtime, source, run, p, stack, ret, parsed, diagnostics, effect_diagnostics, wasm, fmt1>>

\* ------------------------------------------------------------------------
\* Source texts

\* The sources of the test suite (jalm_tests/tests).
TestSources ==
  {
    <<"fn", " ", "f", "(", ")", "->", "i64", "{", "a", "+", "b", "}">>,
    <<"fn", " ", "f", "(", ")", "->", "i64", "{", "if", " ", "true", "{", "foo", "(", "1", "+",
      "2", ")", ".", "bar", "}", "else", "{", "match", " ", "x", "{", "1", "=>", "2", ",", "_",
      "=>", "3", ",", "}", "}", "}">>,
    <<"mod", " ", "foo", ";", "use", " ", "crate", "::", "foo", "::", "bar", " ", "as", " ",
      "baz", ";", "struct", " ", "User", "{", "id", ":", "i64", ";", "}", "enum", " ", "Opt",
      "{", "Some", "(", "i64", ")", ";", "None", ";", "}">>,
    <<"fn", " ", "f", "(", "a", ":", " ", "i64", ")", " ", "->", " ", "i64", " ", "{", " ",
      "/*c*/", " ", "let", " ", "x", " ", "=", " ", "1", ";", " ", "x", " ", "}">>,
    <<"fn", " ", "f", "(", ")", "->", "i64", "{", "let", " ", "x", "=", "1", "}">>,
    <<"fn", " ", "f", "(", ")", "->", "i64", "{", "let", " ", "x", "=", "@", "}">>,
    <<"fn", " ", "f", "(", ")", "->", "i64", "{", "let", " ", "x", "=", "1", ";">>,
    <<"fn", " ", "f", "(", "a", ":", "i64", ")", "->", "i64", "{", "let", " ", "x", "=", "1",
      "+", "2", ";", "return", " ", "x", ";", "}">>,
    <<"fn", " ", "f", "(", "a", ":", "i64", ")", "->", "i64", "{", "if", " ", "true", "{",
      "foo", "(", "1", "+", "2", ")", ".", "bar", "}", "else", "{", "match", " ", "x", "{",
      "1", "=>", "2", ",", "_", "=>", "3", ",", "}", "}", "}">>,
    <<"fn", " ", "add", "(", "a", ":", " ", "i64", ",", " ", "b", ":", " ", "i64", ")", " ",
      "->", " ", "i64", " ", "{", " ", "let", " ", "c", " ", "=", " ", "a", " ", "+", " ", "b",
      ";", " ", "c", " ", "}">>,
    <<"fn", " ", "f", "(", "a", ":", " ", "i64", ")", " ", "->", " ", "bool", " ", "{", " ",
      "a", " ", "+", " ", "1", " ", "}">>,
    <<"fn", " ", "f", "(", ")", " ", "->", " ", "i64", " ", "{", " ", "x", " ", "}">>,
    <<"fn", " ", "f", "(", ")", " ", "->", " ", "i64", " ", "!", "{", "fs", "}", " ", "{", " ",
      "fs", "::", "read", "(", "path", ")", ";", " ", "1", " ", "}">> }

\* Items with modifiers, parameters, effects, use paths, variants, nested
\* expressions and statements.
ItemSources ==
  {
    <<"pub", " ", "fn", " ", "f", "(", ")", " ", "{", "}">>,
    <<"async", " ", "fn", " ", "f", "(", ")", " ", "{", "}">>,
    <<"pub", " ", "async", " ", "fn", " ", "f", "(", ")", " ", "{", "}">>,
    <<"pub", " ", "struct", " ", "User", " ", "{", " ", "id", ":", " ", "i64", ";", " ", "}">>,
    <<"pub", " ", "enum", " ", "Opt", " ", "{", " ", "None", ";", " ", "}">>,
    <<"fn", " ", "f", "(", "a", ":">>,
    <<"fn", " ", "f", "(", "a", ":", " ", "i64", ",", " ", "mut", " ", "b", ":", " ", "bool",
      ")", " ", "->", " ", "i64", " ", "!", "{", "fs", ",", " ", "foo", "}", " ", "{", " ",
      "a", " ", "}">>,
    <<"use", " ", "foo", ";", "mod", " ", "bar", ";">>,
    <<"enum", " ", "Opt", "{", "Some", "(", "i64", ",", "bool", ")", ";", "None", ";", "}">>,
    <<"fn", " ", "f", "(", ")", "{", "if", " ", "a", "{", "}", "else", "{", "}", "}">>,
    <<"fn", " ", "f", "(", ")", "{", "if", " ", "a", "{", "1", "}", "else", " ", "if", " ",
      "b", "{", "2", "}", "else", "{", "3", "}", "}">>,
    <<"fn", " ", "f", "(", ")", "{", "match", " ", "x", "{", "_", "=>", "1", ",", "y", "=>",
      "g", "(", "a", ",", "b", ")", ",", "}", "}">>,
    <<"fn", " ", "f", "(", ")", "{", "a", ".", "b", ".", "c", ";", "{", "}", "}">>,
    <<"fn", " ", "f", "(", ")", "{", "(", "a", "+", "b", ")", "*", "c", "}">>,
    <<"fn", " ", "f", "(", ")", "{", "let", " ", "mut", " ", "x", ":", "i64", "=", "1", ";",
      "return", ";", "}">>,
    <<"fn", " ", "f", "(", ")", "{", "let", " ", "_", "=", "1", ";", "x", "}">> }

\* Function bodies for the type checker: literals, the parameter a, the
\* undefined name y, the call g() and the member a.b in every typed position.
Bodies ==
  {
    <<>>,
    <<"a">>,
    <<"1">>,
    <<"true">>,
    <<"y">>,
    <<"a", ";">>,
    <<"g", "(", ")">>,
    <<"a", ".", "b">>,
    <<"(", "y", ")">>,
    <<"{", " ", "y", " ", "}">>,
    <<"a", " ", "+", " ", "1">>,
    <<"a", " ", "+", " ", "true">>,
    <<"a", " ", "==", " ", "true">>,
    <<"a", " ", "&&", " ", "true">>,
    <<"a", " ", "<", " ", "1">>,
    <<"y", " ", "+", " ", "1">>,
    <<"1", " ", "+", " ", "y">>,
    <<"y", " ", "==", " ", "1">>,
    <<"g", "(", ")", " ", "+", " ", "1">>,
    <<"1", " ", "+", " ", "g", "(", ")">>,
    <<"g", "(", ")", " ", "<", " ", "1">>,
    <<"g", "(", ")", " ", "==", " ", "1">>,
    <<"g", "(", ")", " ", "&&", " ", "true">>,
    <<"true", " ", "||", " ", "g", "(", ")">>,
    <<"a", ".", "b", " ", "*", " ", "a", ".", "b">>,
    <<"return", " ", "a", ";">>,
    <<"return", " ", "y", ";">>,
    <<"return", " ", "g", "(", ")", ";">>,
    <<"return", " ", "true", ";">>,
    <<"return", ";">>,
    <<"let", " ", "x", " ", "=", " ", "y", ";", " ", "x">>,
    <<"let", " ", "x", " ", "=", " ", "g", "(", ")", ";", " ", "x">>,
    <<"let", " ", "x", ":", " ", "bool", " ", "=", " ", "1", ";", " ", "x">>,
    <<"let", " ", "x", ":", " ", "bool", " ", "=", " ", "y", ";", " ", "x">>,
    <<"let", " ", "x", ":", " ", "i64", " ", "=", " ", "g", "(", ")", ";", " ", "x">>,
    <<"let", " ", "x", ":", " ", "i64", " ", "=", " ", "true", ";", " ", "x">>,
    <<"if", " ", "a", " ", "==", " ", "1", " ", "{", " ", "1", " ", "}", "else", "{", " ",
      "true", " ", "}">>,
    <<"if", " ", "g", "(", ")", " ", "{", " ", "1", " ", "}", "else", "{", " ", "2", " ", "}">>,
    <<"if", " ", "y", " ", "{", " ", "1", " ", "}", "else", "{", " ", "2", " ", "}">>,
    <<"if", " ", "true", " ", "{", " ", "y", " ", "}", "else", "{", " ", "2", " ", "}">>,
    <<"if", " ", "true", " ", "{", " ", "1", " ", "}", "else", "{", " ", "y", " ", "}">>,
    <<"if", " ", "true", " ", "{", " ", "g", "(", ")", " ", "}", "else", "{", " ", "2", " ", "}">>,
    <<"if", " ", "true", " ", "{", " ", "1", " ", "}", "else", "{", " ", "g", "(", ")", " ", "}">>,
    <<"if", " ", "1", " ", "{", " ", "1", " ", "}">>,
    <<"if", " ", "true", " ", "{", " ", "1", " ", "}">>,
    <<"match", " ", "a", " ", "{", " ", "1", " ", "=>", " ", "2", ",", " ", "_", " ", "=>",
      " ", "true", ",", " ", "}">>,
    <<"match", " ", "a", " ", "{", " ", "1", " ", "=>", " ", "y", ",", " ", "_", " ", "=>",
      " ", "2", ",", " ", "}">>,
    <<"match", " ", "a", " ", "{", " ", "1", " ", "=>", " ", "2", ",", " ", "_", " ", "=>",
      " ", "y", ",", " ", "}">>,
    <<"match", " ", "a", " ", "{", " ", "1", " ", "=>", " ", "g", "(", ")", ",", " ", "_", " ",
      "=>", " ", "2", ",", " ", "}">>,
    <<"match", " ", "a", " ", "{", " ", "1", " ", "=>", " ", "2", ",", " ", "_", " ", "=>",
      " ", "g", "(", ")", ",", " ", "}">> }

\* Every pair of infix operators between three operands, bare and with the
\* first pair in parentheses.
OperatorWords == {"||", "&&", "==", "!=", "<", "<=", ">", ">=", "+", "-", "*", "/", "%"}

OperatorSource(op1, op2) ==
  <<"fn", " ", "f", "(", ")", "{", "a", op1, "b", op2, "c", "}">>

ParenSource(op1, op2) ==
  <<"fn", " ", "f", "(", ")", "{", "(", "a", op1, "b", ")", op2, "c", "}">>

OperatorSources ==
  {OperatorSource(op1, op2) : op1 \in OperatorWords, op2 \in OperatorWords}
  \cup {ParenSource(op1, op2) : op1 \in OperatorWords, op2 \in OperatorWords}

\* Functions of one i64 parameter with each declared return type and body.
ReturnTypes == {<<>>, <<"->", " ", "i64", " ">>, <<"->", " ", "bool", " ">>,
                <<"->", " ", "User", " ">>}

TypedSource(rty, body) ==
  <<"fn", " ", "f", "(", "a", ":", " ", "i64", ")", " ">> \o rty \o <<"{", " ">>
  \o body \o <<" ", "}">>

TypedSources == {TypedSource(rty, body) : rty \in ReturnTypes, body \in Bodies}

\* Functions with each declared effect set and each body that names effects:
\* as a path, inside an identifier, inside comments, twice, and in nested
\* blocks and arguments.
EffectSets == {<<>>, <<"!", "{", "fs", "}", " ">>, <<"!", "{", "net", "}", " ">>,
               <<"!", "{", "io", ",", " ", "time", "}", " ">>,
               <<"!", "{", "http", ",", " ", "log", "}", " ">>,
               <<"!", "{", "fs", ",", " ", "net", ",", " ", "rand", ",", " ", "ffi", "}", " ">>}

EffectBodies ==
  { <<"fs", "::", "read", "(", "path", ")", ";", " ", "1">>,
    <<"http", "::", "serve", "(", ")", ";", " ", "1">>,
    <<"net", "::", "x">>, <<"time", "::", "x">>, <<"rand", "::", "x">>,
    <<"log", "::", "x">>, <<"ffi", "::", "x">>, <<"dfs", "::", "x">>,
    <<"fs", " ", "::", "x">>, <<"fs", ":", " ", "x">>,
    <<"/*fs::*/", " ", "1">>,
    <<"/*net::net::*/", " ", "/*fs::*/", " ", "http", "::", "x">>,
    <<"{", " ", "/*fs::*/", " ", "}", ";", " ", "log", "::", "x">>,
    <<"g", "(", "fs", "::", "read", ")">>,
    <<"/*c*/", " ", "1", " ", "}", " ", "fn", " ", "g", "(", ")", " ", "{", " ", "/*fs::*/",
      " ", "/*net::net::*/">> }

EffectSource(set, body) ==
  <<"fn", " ", "f", "(", ")", " ", "->", " ", "i64", " ">> \o set \o <<"{", " ">>
  \o body \o <<" ", "}">>

EffectSources == {EffectSource(set, body) : set \in EffectSets, body \in EffectBodies}

\* Programs for the code generator: each parameter list and declared return
\* type with one body, and each place a call can stand in with one signature;
\* the second and third group call, name and declare across two functions.
CodegenParams ==
  {<<>>, <<"a", ":", " ", "i64">>, <<"a", ":", " ", "i32">>, <<"a", ":", " ", "bool">>,
   <<"a", ":", " ", "string">>, <<"a", ":", " ", "User">>,
   <<"a", ":", " ", "i64", ",", " ", "b", ":", " ", "i32">>,
   <<"a", ":", " ", "bool", ",", " ", "b", ":", " ", "string">>}

CodegenReturns ==
  {<<>>, <<"->", "i64">>, <<"->", "i32">>, <<"->", "bool">>, <<"->", "string">>,
   <<"->", "User">>}

CodegenBodies ==
  { <<"return", " ", "1", ";">>,
    <<"return", " ", "nope", "(", ")", ";">>,
    <<"nope", "(", ")">>,
    <<"let", " ", "x", "=", "nope", "(", ")", ";", "return", " ", "x", ";">>,
    <<"nope", "(", ")", ";", "return", " ", "1", ";">>,
    <<"if", " ", "nope", "(", ")", "{", "return", " ", "1", ";", "}">>,
    <<"if", " ", "nope", "(", ")", "{", "}", ";", "return", " ", "0", ";">>,
    <<"if", " ", "true", "{", "}", "else", "{", "return", " ", "nope", "(", ")", ";", "}">>,
    <<"return", " ", "main", "(", "nope", "(", "1", ")", ")", ";">>,
    <<"return", " ", "(", "1", "+", "nope", "(", ")", ")", "*", "2", ";">>,
    <<"return", " ", "y", ";">>,
    <<"let", " ", "x", ":", " ", "i64", "=", "1", ";", "return", " ", "x", "+", "y", ";">>,
    <<"return", " ", "1", ";", "}", "fn", " ", "g", "(", "a", ":", " ", "i32", ")", "->",
      "bool", "{", "return", " ", "main", "(", ")", "+", "nope", "(", "y", ")", ";">>,
    <<"return", " ", "g", "(", "1", ")", ";", "}", "fn", " ", "g", "(", "a", ":", " ", "i64",
      ")", "->", "i64", "{", "return", " ", "a", ";">> }

CodegenSource(name, params, rty, body) ==
  <<"fn", " ", name, "(">> \o params \o <<")">> \o rty \o <<"{">> \o body \o <<"}">>

CodegenSources ==
  {CodegenSource("f", params, rty, <<"return", " ", "1", ";">>) :
     params \in CodegenParams, rty \in CodegenReturns}
  \cup {CodegenSource("main", <<>>, <<"->", "i64">>, body) : body \in CodegenBodies}
  \cup {<<"\n">> \o CodegenSource("main", <<>>, <<" ", "->", " ", "i64", " ">>,
                                    <<"  ", "return", " ", "nope", "(", ")", ";", "\n">>)
        \o <<"\n">>}

\* Bodies for the emitted code: `let` directly in the body and inside the
\* blocks of an `if` (which stands last in its block, or before a `;`),
\* repeated names, bodies that end in a return, in a tail expression, in an
\* `if`, or in nothing, and values of each width.
EmissionBodies ==
  { <<>>,
    <<"3">>,
    <<"1", ";">>,
    <<"return", " ", "1", ";">>,
    <<"return", " ", "true", ";">>,
    <<"return", " ", "1", "==", "2", ";">>,
    <<"let", " ", "x", "=", "1", ";", "let", " ", "y", "=", "x", "+", "1", ";",
      "return", " ", "y", ";">>,
    <<"let", " ", "x", "=", "1", ";", "let", " ", "x", "=", "2", ";", "return", " ", "x", ";">>,
    <<"let", " ", "a", "=", "2", ";", "return", " ", "1", ";">>,
    <<"let", " ", "x", "=", "true", ";", "return", " ", "1", ";">>,
    <<"let", " ", "y", "=", "1", ";", "if", " ", "true", "{", "let", " ", "x", "=", "2", ";",
      "}">>,
    <<"if", " ", "true", "{", "}", "else", "{", "let", " ", "x", "=", "1", ";", "}">>,
    <<"if", " ", "true", "{", "let", " ", "x", "=", "1", ";", "}", ";", "return", " ", "2",
      ";">>,
    <<"if", " ", "true", "{", "return", " ", "1", ";", "}">>,
    <<"let", " ", "x", "=", "1", ";", "if", " ", "x", "{", "return", " ", "1", ";", "}">> }

EmissionSources ==
  {CodegenSource("main", params, rty, body) :
     params \in {<<>>, <<"a", ":", " ", "i64">>}, rty \in {<<>>, <<"->", "i64">>},
     body \in EmissionBodies}

\* jalmt: the sources that cmd_new writes to src/main.jalm and to
\* tests/basic.jalm, and the source of the test of `check`
ScaffoldedMain ==
  <<"fn", " ", "main", "(", ")", " ", "->", " ", "i64", " ", "{", "\n  ", "return", " ", "0",
    ";", "\n", "}", "\n">>

ScaffoldedTest ==
  <<"fn", " ", "add", "(", "a", ":", " ", "i64", ",", " ", "b", ":", " ", "i64", ")", " ",
    "->", " ", "i64", " ", "{", "\n  ", "return", " ", "a", " ", "+", " ", "b", ";", "\n",
    "}", "\n">>

ScaffoldSources ==
  {ScaffoldedMain, ScaffoldedTest,
   <<"fn", " ", "main", "(", ")", " ", "->", " ", "i64", " ", "{", " ", "return", " ", "0",
     ";", " ", "}">>}

\* Two functions, the first binding names as parameters, by `let` and by
\* `let` inside the blocks of an `if` and inside a block, the second using
\* and binding the same names
FirstFunctions ==
  { CodegenSource("f", <<"a", ":", " ", "i64">>, <<"->", "i64">>, <<"a">>),
    CodegenSource("f", <<>>, <<"->", "i64">>, <<"let", " ", "x", "=", "1", ";", "x">>),
    CodegenSource("f", <<"x", ":", " ", "bool">>, <<"->", "i64">>,
                  <<"if", " ", "x", "{", "let", " ", "a", "=", "1", ";", "}", ";", "a">>),
    CodegenSource("f", <<>>, <<"->", "i64">>,
                  <<"if", " ", "true", "{", "let", " ", "x", "=", "1", ";", "}", "else", "{",
                    "let", " ", "a", "=", "2", ";", "}", ";", "return", " ", "a", ";">>),
    CodegenSource("f", <<>>, <<"->", "i64">>,
                  <<"{", "let", " ", "x", "=", "1", ";", "}", ";", "x">>) }

SecondFunctions ==
  { CodegenSource("g", <<>>, <<"->", "i64">>, <<"a">>),
    CodegenSource("g", <<>>, <<"->", "i64">>, <<"return", " ", "x", ";">>),
    CodegenSource("g", <<"a", ":", " ", "bool">>, <<"->", "bool">>, <<"a">>),
    CodegenSource("g", <<"x", ":", " ", "i64">>, <<"->", "i64">>,
                  <<"let", " ", "a", "=", "x", ";", "a">>),
    CodegenSource("g", <<>>, <<>>, <<"let", " ", "y", "=", "x", "+", "a", ";">>) }

ScopeSources == {first \o <<" ">> \o second : first \in FirstFunctions, second \in SecondFunctions}

\* Every text cut off after any of its words.
Prefixes(srcs) == UNION {{SubSeq(src, 1, n) : n \in 0..Len(src)} : src \in srcs}

\* Arbitrary token sequences of up to MaxRandLen tokens, separated by single
\* blanks, in each list-consuming context of the grammar.
MaxRandLen == 2

Alphabet == {"fn", "f", "(", ")", "{", "}", ";", ",", ":", "=", "=>", "->", "+", "1", "_",
             "let", "if", "else", "match", "return", "pub", "struct", "@"}

Contexts ==
  { <<<<>>, <<>>>>,
    <<<<"fn", " ", "f", "(">>, <<")", "{", "}">>>>,
    <<<<"fn", " ", "f", "(", ")", "!", "{">>, <<"}", "{", "}">>>>,
    <<<<"fn", " ", "f", "(", ")", "{">>, <<"}">>>>,
    <<<<"fn", " ", "f", "(", ")", "{", "g", "(">>, <<")", "}">>>>,
    <<<<"fn", " ", "f", "(", ")", "{", "match", " ", "x", "{">>, <<"}", "}">>>>,
    <<<<"struct", " ", "f", "{">>, <<"}">>>>,
    <<<<"enum", " ", "f", "{", "a", "(">>, <<")", ";", "}">>>> }

Spaced(ws) ==
  [i \in 1..(2 * Len(ws) - 1) |-> IF i % 2 = 1 THEN ws[(i + 1) \div 2] ELSE " "]

RandomSources ==
  {ctx[1] \o Spaced(ws) \o ctx[2] :
     ctx \in Contexts, ws \in UNION {[1..n -> Alphabet] : n \in 0..MaxRandLen}}

Inputs ==
  {src \in Prefixes(TestSources \cup ItemSources) \cup OperatorSources \cup TypedSources
           \cup EffectSources \cup CodegenSources \cup EmissionSources \cup ScaffoldSources
           \cup ScopeSources \cup RandomSources :
     Lexable(src)}

Init ==
  /\ source \in Inputs
  /\ run = 1
  /\ pc = "parsing"
  /\ p = NewParser(ParseTokens(source))
  /\ stack = <<Frame("parse_root", "entry")>>
  /\ ret = 0
  /\ parsed = NoParse
  /\ diagnostics = <<>>
  /\ effect_diagnostics = <<>>
  /\ wasm = [tag |-> "None", module |-> NoModule, diagnostics |-> <<>>]
  /\ fmt1 = NoResult
  /\ fmt2 = NoResult
  /\ RuntimeIdle

Next == ParserStep \/ ParseReturn \/ Check \/ EffectCheck \/ Compile \/ Format \/ FormatAgain

Spec == Init /\ [][Next]_vars

\* The emitted program calls the runtime, from NEXT = 0, on any build.
RuntimeInit ==
  /\ source = <<>>
  /\ run = 1
  /\ pc = "runtime"
  /\ p = NewParser(ParseTokens(source))
  /\ stack = <<>>
  /\ ret = 0
  /\ parsed = NoParse
  /\ diagnostics = <<>>
  /\ effect_diagnostics = <<>>
  /\ wasm = [tag |-> "None", module |-> NoModule, diagnostics |-> <<>>]
  /\ fmt1 = NoResult
  /\ fmt2 = NoResult
  /\ build \in Builds
  /\ NEXT = 0
  /\ pages = IF build.target = "wasm32" THEN 1 ELSE 0
  /\ memory = [a \in Heap(pages) |-> 0]
  /\ regions = <<>>
  /\ last = NoCall
  /\ calls = 0
  /\ callers = NoCallers

RuntimeNext ==
  Alloc \/ Realloc \/ Free \/ BytesAlloc \/ BytesClone \/ Memcpy \/ Memset \/ Panic

RuntimeSpec == RuntimeInit /\ [][RuntimeNext]_vars

\* Two threads of the program call jalm_alloc again and again, each thread a
\* step at a time: there is no lock in jalm_runtime, and NEXT is read and
\* written by a load and a store of its own.
ConcurrentInit ==
  /\ source = <<>>
  /\ run = 1
  /\ pc = "concurrent"
  /\ p = NewParser(ParseTokens(source))
  /\ stack = <<>>
  /\ ret = 0
  /\ parsed = NoParse
  /\ diagnostics = <<>>
  /\ effect_diagnostics = <<>>
  /\ wasm = [tag |-> "None", module |-> NoModule, diagnostics |-> <<>>]
  /\ fmt1 = NoResult
  /\ fmt2 = NoResult
  /\ build \in Builds
  /\ NEXT = 0
  /\ pages = IF build.target = "wasm32" THEN 1 ELSE 0
  /\ memory = [a \in Heap(pages) |-> 0]
  /\ regions = <<>>
  /\ last = NoCall
  /\ calls = 0
  /\ callers = NoCallers

ConcurrentNext ==
  \/ \E c \in Callers : AllocLoad(c)
  \/ \E c \in Callers : AllocCheck(c)
  \/ \E c \in Callers : AllocStore(c)

ConcurrentSpec == ConcurrentInit /\ [][ConcurrentNext]_vars

\* ------------------------------------------------------------------------
\* Properties

\* The text of the parse under way or last finished: the source, then the
\* formatted text.
Input == IF run = 1 THEN source ELSE fmt1.text

\* C1: lossless round trip.  When parse returns, for well-formed and malformed
\* text alike, the tokens of the tree in document order are the lexed tokens,
\* trivia included, each once and without the Eof token, and their
\* concatenated text is the text parsed.
C1_LosslessRoundTrip ==
  pc = "parsed" =>
    /\ Tokens(parsed.green) = MergeWhitespace(Lexemes(Input))
    /\ ToStringLossless(Syntax(parsed)) = Join(Input)

\* A malformed source with a comment and blanks has been parsed and its tree
\* gives the source back.
C1_RoundTripOfMalformed ==
  /\ pc = "parsed" /\ run = 1
  /\ parsed.errors # <<>>
  /\ \E i \in 1..Len(source) : LexKind(source[i]) = "Comment"
  /\ \E i \in 1..Len(source) : LexKind(source[i]) = "Whitespace"
  /\ ToStringLossless(Syntax(parsed)) = Join(source)

\* Every later turn of a loop of a frame began at a later token than the turn
\* before it.
LoopsConsume ==
  \A i \in 1..Len(stack) :
    /\ stack[i].prev >= 0 => stack[i].it > stack[i].prev
    /\ stack[i].prev2 >= 0 => stack[i].it2 > stack[i].prev2

\* C2: error recovery terminates.  Every turn after the first of a loop of
\* parse_root, parse_block, the struct and enum bodies, the match arms and the
\* parameter, argument, effect and variant type lists begins at a later token
\* than the turn before it (a turn consumes a token or leaves the loop), the
\* position never passes the end of the tokens, and what parse returns is a
\* tree whose root is Root, with the errors.
C2_ErrorRecoveryTerminates ==
  /\ LoopsConsume
  /\ p.pos <= Len(p.tokens)
  /\ pc = "parsed" => (stack = <<>> /\ parsed.green.kind = "Root")

\* A parse with errors has returned after a loop of parse_root took several
\* turns.
C2_RecoveredAndReturned ==
  /\ pc = "parsed" /\ stack = <<>> /\ parsed.green.kind = "Root"
  /\ Len(parsed.errors) >= 2
  /\ \E i \in 1..Len(p.events) : p.events[i] = StartNode("Error")

\* C3: formatter idempotence, for the sources with an else branch that the
\* claim names.  When format_source of such a source is Ok(t), then
\* format_source(t) is Ok(t) too: the formatted `} else {` parses cleanly.
C3_FormatterIdempotent ==
  (pc = "done" /\ fmt1.tag = "Ok" /\ \E i \in 1..Len(source) : source[i] = "else")
    => (fmt2.tag = "Ok" /\ fmt2.text = fmt1.text)

\* What format_source returns for a parse: Err with the errors of the parse
\* and no text when there are errors, Ok with a text otherwise.
FormatOutcome(res, parse) ==
  IF parse.errors # <<>>
  THEN res.tag = "Err" /\ res.errors = parse.errors /\ res.text = <<>>
  ELSE res.tag = "Ok" /\ res.errors = <<>>

\* C4: format_source returns Err(ParseErrors(errors)) with the errors of the
\* parse exactly when the parse has errors, and Ok(text) otherwise; there is no
\* text for an input with a parse error.
C4_ParseErrorsRefused ==
  /\ (fmt1 # NoResult /\ (run = 1 \/ pc = "parsing")) => FormatOutcome(fmt1, parsed)
  /\ fmt2 # NoResult => FormatOutcome(fmt2, parsed)

\* format_source has refused a source with parse errors.
C4_Refused ==
  /\ pc = "done" /\ run = 1
  /\ parsed.errors # <<>>
  /\ fmt1 = [tag |-> "Err", errors |-> parsed.errors, text |-> <<>>]

RECURSIVE Render(_)
\* An expression tree as a text: a BinExpr in ( ), a ParenExpr in [ ], the
\* tokens by their text, trivia left out.
Render(e) ==
  LET inner == Join([i \in 1..Len(e.children) |-> Render(e.children[i])])
  IN CASE ~IsNode(e) -> IF IsTrivia(e.kind) THEN "" ELSE e.text
       [] e.kind = "BinExpr" -> "(" \o inner \o ")"
       [] e.kind = "ParenExpr" -> "[" \o inner \o "]"
       [] OTHER -> inner

\* The statements of the body of the first function of the tree.
BodyOfFirstFn(green) ==
  StmtsOf(FindKind(Children(FindKind(Children(green), "FnDecl")[1]), "Block")[1])

\* The tree the rule of C5 gives `a op1 b op2 c`.
PrattTree(op1, op2) ==
  IF InfixBindingPower(LexKind(op2))[1] < InfixBindingPower(LexKind(op1))[2]
  THEN "((a" \o op1 \o "b)" \o op2 \o "c)"
  ELSE "(a" \o op1 \o "(b" \o op2 \o "c))"

\* C5: precedence and associativity.  For all operators op1 and op2 of the
\* table, `a op1 b op2 c` parses to BinExpr(op2, BinExpr(op1, a, b), c) when
\* l_bp(op2) < r_bp(op1) and to BinExpr(op1, a, BinExpr(op2, b, c)) otherwise,
\* and `(a op1 b) op2 c` to BinExpr(op2, ParenExpr(BinExpr(op1, a, b)), c).
C5_PrattPrecedence ==
  (pc = "parsed" /\ run = 1) =>
    \A op1, op2 \in OperatorWords :
      /\ source = OperatorSource(op1, op2) =>
           /\ parsed.errors = <<>>
           /\ Len(BodyOfFirstFn(parsed.green)) = 1
           /\ Render(BodyOfFirstFn(parsed.green)[1]) = PrattTree(op1, op2)
      /\ source = ParenSource(op1, op2) =>
           /\ parsed.errors = <<>>
           /\ Len(BodyOfFirstFn(parsed.green)) = 1
           /\ Render(BodyOfFirstFn(parsed.green)[1])
                = "([((a" \o op1 \o "b))]" \o op2 \o "c)"

\* `a+b*c` has been parsed to BinExpr(+, a, BinExpr(*, b, c)).
C5_SumOfProduct ==
  /\ pc = "parsed" /\ run = 1
  /\ source = OperatorSource("+", "*")
  /\ Render(BodyOfFirstFn(parsed.green)[1]) = "(a+(b*c))"

\* C6: parse errors are in source order.  In the errors list of a parse the
\* span starts of consecutive errors never decrease, the errors recorded at or
\* past the Eof token included.
C6_ErrorsInSourceOrder ==
  \A i \in 1..(Len(p.errors) - 1) : p.errors[i].start <= p.errors[i + 1].start

\* The prefixes of C7 and the declaration they are written before.
ModifierPrefixes == {<<"pub", " ">>, <<"async", " ">>, <<"pub", " ", "async", " ">>}

PlainFn == <<"fn", " ", "f", "(", ")", " ", "{", "}">>

\* The declaration has a token with the text.
HasTokenText(node, text) ==
  \E i \in 1..Len(node.children) : ~IsNode(node.children[i]) /\ node.children[i].text = text

\* C7: optional function modifiers.  `fn f() {}` written after `pub `, `async `
\* or `pub async ` parses with no errors to one FnDecl child of Root that has
\* the modifier tokens.
C7_FnModifiersParse ==
  (pc = "parsed" /\ run = 1) =>
    \A pre \in ModifierPrefixes :
      source = pre \o PlainFn =>
        /\ parsed.errors = <<>>
        /\ Len(Children(parsed.green)) = 1
        /\ Children(parsed.green)[1].kind = "FnDecl"
        /\ \A i \in 1..Len(pre) :
             pre[i] # " " => HasTokenText(Children(parsed.green)[1], pre[i])

\* The diagnostics E0004 that span the node.
MismatchesAt(node) ==
  {i \in 1..Len(diagnostics) :
     /\ diagnostics[i].code = "E0004"
     /\ diagnostics[i].start = node.start /\ diagnostics[i].end = node.end}

\* What C8 says of a function with the body `block`, the declared return type
\* `declared` and the block type `ty`.
BodyVerdict(block, declared, ty) ==
  IF ty # Error /\ ~TypeCompatible(declared, ty)
  THEN /\ Cardinality(MismatchesAt(block)) = 1
       /\ \A i \in MismatchesAt(block) :
            /\ diagnostics[i].expected = <<TypeName(declared)>>
            /\ diagnostics[i].actual = <<TypeName(ty)>>
  ELSE MismatchesAt(block) = {}

\* The declared return type of a function, Unit when there is no `->`.
DeclaredReturn(found) == IF found = <<>> THEN Unit ELSE found[1]

\* C8 for one FnDecl of the root.
FnVerdict(fn, block) ==
  block # <<>> =>
    BodyVerdict(block[1], DeclaredReturn(FindReturnType(fn)),
                CheckBlock(EnterFn(NewChecker, fn), block[1]).ty)

\* C8: return/body check.  For every FnDecl the diagnostics hold exactly one
\* E0004 that spans the body Block, with expected the declared return type
\* (Unit without `->`) and actual the block type, if the block type is not
\* Error and not compatible with the declared return type, and none that spans
\* the body Block otherwise.
C8_BodyAgainstReturn ==
  pc = "checked" =>
    \A i \in 1..Len(Children(Syntax(parsed))) :
      Children(Syntax(parsed))[i].kind = "FnDecl" =>
        FnVerdict(Children(Syntax(parsed))[i],
                  FindKind(Children(Children(Syntax(parsed))[i]), "Block"))

\* `fn f(a: i64) -> bool { a + 1 }` has been checked: one E0004 on the body,
\* expected bool, actual i64.
C8_BoolFromSum ==
  /\ pc = "checked"
  /\ Join(source) = "fn f(a: i64) -> bool { a + 1 }"
  /\ diagnostics = <<[code |-> "E0004", message |-> "type mismatch", start |-> 21,
                      end |-> 30, expected |-> <<"bool">>, actual |-> <<"i64">>]>>

\* C9: Error suppresses cascades.  For a source that parses with no errors, no
\* diagnostic of the type checker has `<error>` as its expected or its actual
\* type.
C9_NoErrorTypeReported ==
  (pc = "checked" /\ parsed.errors = <<>>) =>
    \A i \in 1..Len(diagnostics) :
      /\ diagnostics[i].expected # <<"<error>">>
      /\ diagnostics[i].actual # <<"<error>">>

\* C10: Unknown is compatible with any type.  For a source that parses with no
\* errors, no diagnostic of the type checker is about an expression of type
\* Unknown: none has `<unknown>` as its expected or its actual type.
C10_UnknownNeverReported ==
  (pc = "checked" /\ parsed.errors = <<>>) =>
    \A i \in 1..Len(diagnostics) :
      /\ diagnostics[i].expected # <<"<unknown>">>
      /\ diagnostics[i].actual # <<"<unknown>">>

\* The positions, counted from 0, at which the characters of word are found
\* in the text.
OccurrencesOf(text, word) ==
  {i \in 0..(Len(text) - Len(word)) : SubSeq(text, i + 1, i + Len(word)) = word}

\* The effect each module prefix requires.
RequiredBy ==
  [fs |-> "fs", net |-> "net", http |-> "net", time |-> "time", rand |-> "rand",
   log |-> "io", ffi |-> "ffi"]

\* The effects a function declares: the names in its `!{...}` that are effects.
Granted(fn) ==
  {name \in {"io", "net", "fs", "time", "rand", "ffi"} :
     \E set \in {k \in 1..Len(fn.children) : fn.children[k].kind = "EffectSet"} :
       /\ \A k \in 1..(set - 1) : fn.children[k].kind # "EffectSet"
       /\ \E ident \in 1..Len(fn.children[set].children) :
            /\ fn.children[set].children[ident].kind = "IdentNode"
            /\ FirstIdentChildText(fn.children[set].children[ident]) = <<K("Ident", name)>>}

\* The diagnostics the occurrences of the prefixes in the body of fn call for.
UndeclaredIn(fn) ==
  LET blocks == SelectSeq(Children(fn), LAMBDA e : e.kind = "Block")
  IN IF blocks = <<>> THEN {}
     ELSE LET body == blocks[1]
              text == CharsOf(body)
          IN {[code |-> "E1001", message |-> "undeclared effect",
               start |-> body.start + i, end |-> body.start + i + Len(Chars[word]) + 2,
               required |-> RequiredBy[word]] :
                <<word, i>> \in
                  {wi \in (DOMAIN RequiredBy) \X (0..Len(text)) :
                     /\ wi[2] \in OccurrencesOf(text, Chars[wi[1]] \o <<":", ":">>)
                     /\ RequiredBy[wi[1]] \notin Granted(fn)}}

\* C11: effect check.  For each FnDecl, every occurrence in the text of the
\* body Block of one of the prefixes fs::, net::, http::, time::, rand::, log::,
\* ffi:: gives one E1001 with the effect the prefix requires and the span of
\* the prefix, `::` included, exactly when the function does not declare that
\* effect; names declared that are no effects grant nothing, and there is no
\* other diagnostic.
C11_UndeclaredEffects ==
  pc = "effects_checked" =>
    LET fns == SelectSeq(Children(Syntax(parsed)), LAMBDA e : e.kind = "FnDecl")
        all == UNION {UndeclaredIn(fns[i]) : i \in 1..Len(fns)}
    IN /\ {effect_diagnostics[i] : i \in 1..Len(effect_diagnostics)} = all
       /\ Len(effect_diagnostics) = Cardinality(all)

\* The body names net:: twice inside one comment, fs:: in another and http::
\* as a path; fs is declared: three diagnostics requiring net.
C11_NetThrice ==
  /\ pc = "effects_checked"
  /\ Join(source) = "fn f() -> i64 !{fs} { /*net::net::*/ /*fs::*/ http::x }"
  /\ effect_diagnostics =
       << [code |-> "E1001", message |-> "undeclared effect", start |-> 24, end |-> 29,
           required |-> "net"],
          [code |-> "E1001", message |-> "undeclared effect", start |-> 29, end |-> 34,
           required |-> "net"],
          [code |-> "E1001", message |-> "undeclared effect", start |-> 46, end |-> 52,
           required |-> "net"] >>

\* ------------------------------------------------------------------------
\* The code generator

FnDecls(root) == SelectSeq(Children(root), IsFnDecl)

Codes(diags) == [i \in 1..Len(diags) |-> diags[i].code]

\* The diagnostics of every stage of compile_to_wasm, in the order of the
\* stages: the parse, the collection of the functions, and for each function
\* its signature and then its body.
StageDiagnostics ==
  LET root == Syntax(parsed)
      functions == CollectFunctions(root)
      indices == FuncIndices(functions)
  IN IF parsed.errors # <<>>
     THEN [i \in 1..Len(parsed.errors) |->
             [code |-> "E2000", message |-> parsed.errors[i].message]]
     ELSE IF FnDecls(root) = <<>>
     THEN <<[code |-> "E2001", message |-> "no functions found"]>>
     ELSE Flatten([i \in 1..Len(functions) |->
                     LET f == functions[i]
                         ctx == [func_indices |-> indices, locals |-> f.locals,
                                 params |-> f.params]
                     IN SignatureDiagnostics(f)
                        \o EmitAll([k \in 1..Len(f.body) |-> EmitStmt(ctx, f.body[k])]).diags])

\* C12: compile_to_wasm returns Ok with a module exactly when no stage
\* produced a diagnostic, and otherwise Err with the whole non-empty batch
\* and no module; parse errors give one E2000 each and nothing else, and a
\* program without functions gives exactly E2001.
C12_BatchOrModule ==
  pc = "compiled" =>
    /\ wasm.tag \in {"Ok", "Err"}
    /\ wasm.tag = "Ok" <=> StageDiagnostics = <<>>
    /\ wasm.tag = "Ok" =>
         /\ wasm.diagnostics = <<>>
         /\ wasm.module # NoModule
         /\ Len(wasm.module.code) = Len(FnDecls(Syntax(parsed)))
    /\ wasm.tag = "Err" =>
         /\ wasm.diagnostics # <<>>
         /\ wasm.diagnostics = StageDiagnostics
         /\ wasm.module = NoModule
    /\ parsed.errors # <<>> =>
         /\ wasm.tag = "Err"
         /\ Len(wasm.diagnostics) = Len(parsed.errors)
         /\ \A i \in 1..Len(parsed.errors) :
              wasm.diagnostics[i] = [code |-> "E2000", message |-> parsed.errors[i].message]
    /\ parsed.errors = <<>> /\ FnDecls(Syntax(parsed)) = <<>> =>
         /\ wasm.tag = "Err"
         /\ Codes(wasm.diagnostics) = <<"E2001">>

\* Two functions, the second with diagnostics from its signature and from
\* its body: the batch holds all four and there is no module.
C12_BatchOfFour ==
  /\ pc = "compiled"
  /\ Join(source) = "fn main()->i64{return 1;}fn g(a: i32)->bool{return main()+nope(y);}"
  /\ wasm.tag = "Err"
  /\ Codes(wasm.diagnostics) = <<"E2002", "E2003", "E2004", "E2005">>
  /\ wasm.module = NoModule

RECURSIVE CallsIn(_)
\* The names called anywhere in the node: the identifier each CallExpr
\* applies.
CallsIn(node) ==
  LET kids == Children(node)
      here == IF node.kind = "CallExpr" /\ kids # <<>> /\ kids[1].kind = "IdentNode"
              THEN {name[1] : name \in {FindIdentText(kids[1])} \ {<<>>}}
              ELSE {}
  IN here \cup UNION {CallsIn(kids[i]) : i \in 1..Len(kids)}

\* The names of the functions the program defines
DefinedFns(root) ==
  LET fns == FnDecls(root)
      NameOfFn(fn) == LET id == FindKind(Children(fn), "IdentNode")
                      IN IF id = <<>> THEN <<>> ELSE FindIdentText(id[1])
  IN {name[1] : name \in {NameOfFn(fns[i]) : i \in 1..Len(fns)} \ {<<>>}}

\* The names some function body calls that no function of the program has
UnknownCallees(root) ==
  LET fns == FnDecls(root)
      BodyCalls(fn) == LET block == FindKind(Children(fn), "Block")
                       IN IF block = <<>> THEN {} ELSE CallsIn(block[1])
  IN UNION {BodyCalls(fns[i]) : i \in 1..Len(fns)} \ DefinedFns(root)

\* C13: a cleanly parsing program whose function bodies call a name that is
\* not a function of the program compiles to Err with an E2005 diagnostic
\* and no module.
C13_UnknownCalleeRefused ==
  pc = "compiled" /\ parsed.errors = <<>> /\ UnknownCallees(Syntax(parsed)) # {} =>
    /\ wasm.tag = "Err"
    /\ \E i \in 1..Len(wasm.diagnostics) : wasm.diagnostics[i].code = "E2005"
    /\ wasm.module = NoModule

\* The declared types of the parameters of a function, as trimmed text
ParamTypeTexts(fn) ==
  LET list == FindKind(Children(fn), "ParamList")
      params == IF list = <<>> THEN <<>> ELSE SelectSeq(Children(list[1]), IsParamNode)
      TypeText(param) == LET ty == FindKind(Children(param), "Type")
                         IN IF ty = <<>> THEN <<>> ELSE <<TrimmedText(ty[1])>>
  IN Flatten([i \in 1..Len(params) |-> TypeText(params[i])])

\* The declared return type of a function, as trimmed text
ReturnTypeText(fn) ==
  LET ty == FindKind(SelectSeq(AfterToken(fn.children, "Arrow"), IsNode), "Type")
  IN IF ty = <<>> THEN <<>> ELSE <<TrimmedText(ty[1])>>

NotI64Text(text) == text # "i64"

\* C14: a cleanly parsing program gets one E2002 for each parameter declared
\* with a type other than i64 and one E2003 for each return type declared
\* other than i64, whatever the type is called, and then no module.
C14_SignatureRestricted ==
  pc = "compiled" /\ parsed.errors = <<>> =>
    LET fns == FnDecls(Syntax(parsed))
        params == Flatten([i \in 1..Len(fns) |-> SelectSeq(ParamTypeTexts(fns[i]), NotI64Text)])
        returns == Flatten([i \in 1..Len(fns) |-> SelectSeq(ReturnTypeText(fns[i]), NotI64Text)])
        Is2002(d) == d.code = "E2002"
        Is2003(d) == d.code = "E2003"
    IN /\ Len(SelectSeq(wasm.diagnostics, Is2002)) = Len(params)
       /\ Len(SelectSeq(wasm.diagnostics, Is2003)) = Len(returns)
       /\ params # <<>> \/ returns # <<>> => wasm.tag = "Err" /\ wasm.module = NoModule

\* ------------------------------------------------------------------------
\* The runtime allocator

\* n rounded up to a multiple of ALIGN, as a number
RoundUp(n) == ((n + ALIGN - 1) \div ALIGN) * ALIGN

\* align8(max(size, 1)): the bytes a request of size is entitled to
Entitled(size) == RoundUp(IF size < 1 THEN 1 ELSE size)

\* The end of the memory that can be made available
MemoryLimit ==
  IF build.target = "wasm32" THEN build.max_pages * PAGE_SIZE ELSE HeapBase + HEAP_SIZE

\* C15: from NEXT = 0, over any sequence of calls, NEXT never decreases,
\* every pointer handed out is 8-byte aligned, and the region of a later
\* allocation starts at or after the end of the region [p, p + align8(max(
\* size, 1))) of every earlier one, so that the regions are disjoint and the
\* pointers strictly increase.
C15_BumpSafety ==
  /\ last.NEXT <= NEXT
  /\ \A i \in 1..Len(regions) : regions[i].ptr % ALIGN = 0
  /\ \A i \in 1..Len(regions), j \in 1..Len(regions) :
       i < j => regions[i].ptr + Entitled(regions[i].size) <= regions[j].ptr

\* C16: jalm_alloc never panics or traps, whatever the size; it returns null
\* and leaves NEXT alone when the aligned request passes the end of the
\* address space or of the memory that can be made available; and a pointer
\* it returns is followed by at least the requested bytes.
C16_FailureIsNull ==
  last.op = "jalm_alloc" =>
    LET start == RoundUp(IF last.NEXT = 0 THEN HeapBase ELSE last.NEXT)
        end == start + Entitled(last.size)
    IN /\ ~last.panic
       /\ end > UsizeMax \/ end > MemoryLimit => last.result = 0 /\ NEXT = last.NEXT
       /\ last.result # 0 => last.result + last.size <= NEXT

\* C17: jalm_realloc(ptr, old, new) with a null ptr does what jalm_alloc(new)
\* does; with a pointer and new = 0 it returns null and leaves NEXT alone;
\* otherwise it returns either a fresh pointer other than ptr, whose first
\* min(old, new) bytes are those at ptr, with the old region as it was, or
\* null with nothing copied and NEXT left alone.
C17_ReallocSemantics ==
  last.op = "jalm_realloc" =>
    LET alloc == JalmAlloc(last.NEXT, last.pages, last.memory, last.size)
        len == Min(last.old, last.size)
        current == IF last.NEXT = 0 THEN HeapBase ELSE last.NEXT
    IN IF last.ptr = 0
       THEN /\ last.panic = alloc.panic /\ last.result = alloc.ptr /\ NEXT = alloc.NEXT
            /\ last.size = 0 /\ RoundUp(current) + ALIGN <= MemoryLimit =>
                 last.result # 0 /\ NEXT = last.result + ALIGN
       ELSE IF last.size = 0
       THEN ~last.panic /\ last.result = 0 /\ NEXT = last.NEXT
       ELSE /\ ~last.panic
            /\ \/ /\ last.result # 0
                  /\ last.result # last.ptr
                  /\ last.result >= current
                  /\ last.result + last.size <= NEXT
                  /\ \A i \in 0..(len - 1) :
                       /\ last.result + i \in DOMAIN memory
                       /\ last.ptr + i \in DOMAIN last.memory
                       /\ memory[last.result + i] = last.memory[last.ptr + i]
                  /\ \A a \in DOMAIN last.memory :
                       a >= last.ptr /\ a < last.ptr + last.old => memory[a] = last.memory[a]
               \/ /\ last.result = 0
                  /\ NEXT = last.NEXT
                  /\ memory = last.memory

\* ------------------------------------------------------------------------
\* The shape of the tree and of the event list

RECURSIVE NodesIn(_)
\* The nodes of the green tree under node, itself included
NodesIn(node) ==
  {node} \cup UNION {NodesIn(kid) : kid \in {node.children[i] : i \in
                       {i \in 1..Len(node.children) : IsNode(node.children[i])}}}

BinExprs == {n \in NodesIn(parsed.green) : n.kind = "BinExpr"}

\* The positions among the children of the node of its child nodes, of its
\* operator tokens, and of its other tokens that are not trivia
NodesAt(n) == {i \in 1..Len(n.children) : IsNode(n.children[i])}
OperatorsAt(n) ==
  {i \in 1..Len(n.children) : ~IsNode(n.children[i]) /\ n.children[i].kind \in InfixOps}
StrayAt(n) ==
  {i \in 1..Len(n.children) :
     /\ ~IsNode(n.children[i])
     /\ n.children[i].kind \notin InfixOps
     /\ ~IsTrivia(n.children[i].kind)}

\* The node has two child nodes, of kinds among `kinds`, with its one
\* operator token between them, and otherwise trivia only
BinExprOver(n, kinds) ==
  /\ Cardinality(NodesAt(n)) = 2
  /\ \A i \in NodesAt(n) : n.children[i].kind \in kinds
  /\ Cardinality(OperatorsAt(n)) = 1
  /\ \A o \in OperatorsAt(n) :
       /\ \E i \in NodesAt(n) : i < o
       /\ \E i \in NodesAt(n) : o < i
  /\ StrayAt(n) = {}

ExprKinds ==
  {"BinExpr", "CallExpr", "MemberExpr", "IfExpr", "MatchExpr", "IdentNode", "LiteralNode",
   "ParenExpr", "Block"}

\* C18, as claimed: in every tree parse produces, every BinExpr has exactly
\* two expression children, left operand first and right operand second, and
\* exactly one operator token, its other tokens being trivia.
C18_TwoExpressions == \A n \in BinExprs : BinExprOver(n, ExprKinds)

\* C18, amended: in every tree parse produces, every BinExpr has exactly two
\* child nodes, the left operand before and the right operand after its one
\* operator token, its other tokens being trivia; each operand is an
\* expression node, or an Error node where the parser found no expression,
\* which happens only when the parse reports errors.
C18_TwoOperands ==
  /\ \A n \in BinExprs : BinExprOver(n, ExprKinds \cup {"Error"})
  /\ parsed.errors = <<>> => \A n \in BinExprs : BinExprOver(n, ExprKinds)

\* A sum whose right operand is missing: the BinExpr holds the identifier,
\* the operator and an Error node.
C18_MissingOperand ==
  /\ pc = "parsed"
  /\ Join(source) = "fn f()->i64{a+"
  /\ \E n \in BinExprs :
       /\ [i \in 1..Len(n.children) |-> n.children[i].kind] = <<"IdentNode", "Plus", "Error">>
  /\ parsed.errors # <<>>

\* parse_root has returned: no parse function is active
ParseRootReturned == pc # "runtime" /\ stack = <<>>

IsTombstone(e) == e = StartNode("Tomestone")

\* The events that are final: all but the placeholders
Settled(events) == SelectSeq(events, LAMBDA e : ~IsTombstone(e))

\* StartNode minus FinishNode events among the first k
Depth(events, k) ==
  Cardinality({i \in 1..k : events[i].tag = "StartNode"})
  - Cardinality({i \in 1..k : events[i].tag = "FinishNode"})

RECURSIVE PrefixSearch(_, _, _, _)
\* The length of the longest common prefix of a and b, known to be at least lo
\* and at most hi
PrefixSearch(a, b, lo, hi) ==
  IF lo >= hi THEN lo
  ELSE LET mid == (lo + hi + 1) \div 2
       IN IF SubSeq(a, lo + 1, mid) = SubSeq(b, lo + 1, mid)
          THEN PrefixSearch(a, b, mid, hi)
          ELSE PrefixSearch(a, b, lo, mid - 1)

\* The length of the longest common prefix of two sequences
CommonPrefix(a, b) == PrefixSearch(a, b, 0, Min(Len(a), Len(b)))

RECURSIVE IsSubsequence(_, _)
\* a is b with some elements left out: past their common prefix, the next
\* element of b is one of those left out
IsSubsequence(a, b) ==
  \A x \in {a} : \A y \in {b} : \A c \in {CommonPrefix(x, y)} :
    \/ c = Len(x)
    \/ /\ Len(y) > Len(x)
       /\ IsSubsequence(SubSeq(x, c + 1, Len(x)), SubSeq(y, c + 2, Len(y)))

\* A step of the parser keeps every final event, in order: a marker that is
\* completed overwrites a placeholder, and an insertion moves no event that
\* an open marker or a completed one stands for.
MarkersStayValid ==
  pc = "parsing" /\ pc' = "parsing" /\ run' = run =>
    LET d == IF Len(p'.events) >= Len(p.events)
                  /\ SubSeq(p'.events, 1, Len(p.events)) = p.events
             THEN Len(p.events)
             ELSE CommonPrefix(p.events, p'.events)
    IN IsSubsequence(Settled(SubSeq(p.events, d + 1, Len(p.events))),
                     Settled(SubSeq(p'.events, d + 1, Len(p'.events))))

\* The event list parse_root returns is that of one Root node
EventsWellFormed ==
  ParseRootReturned =>
    LET events == p.events
        n == Len(events)
    IN /\ \A i \in 1..n : ~IsTombstone(events[i])
       /\ n > 0 /\ events[1] = StartNode("Root")
       /\ Depth(events, n) = 0
       /\ \A k \in 1..(n - 1) : Depth(events, k) > 0
       /\ BuildGreen(events) # Panicked
       /\ BuildGreen(events).kind = "Root"

\* C19: whatever the tokens, the event list parse_root returns holds no
\* StartNode(Tombstone), begins with StartNode(Root), and has as many
\* FinishNode as StartNode events, with more StartNode than FinishNode events
\* in each of its proper non-empty prefixes; each step of the parser, a
\* precede() insertion included, leaves the events of the open and of the
\* completed markers what they were; and the builder makes of the list
\* exactly one Root node.
C19_MarkerProtocol == [][MarkersStayValid]_vars /\ []EventsWellFormed

\* parse_root has returned after wrapping completed nodes (a call and a
\* binary expression) and after recovering from an error.
C19_PrecededAndRecovered ==
  /\ pc = "parsing" /\ stack = <<>>
  /\ p.errors # <<>>
  /\ \A kind \in {"CallExpr", "BinExpr", "Error"} :
       \E i \in 1..Len(p.events) : p.events[i] = StartNode(kind)

\* The kinds the running function is about to pass to expect(), at the places
\* where expect() is its next call.
Expecting ==
  IF Running("parse_fn_decl", "params_end") THEN {"RParen"}
  ELSE IF Running("parse_effect_set", "end") THEN {"RBrace"}
  ELSE IF Running("parse_enum_decl", "types_end") THEN {"RParen"}
  ELSE IF Running("parse_enum_decl", "variant_end") THEN {"Semi"}
  ELSE IF Running("parse_let_stmt", "end") THEN {"Semi"}
  ELSE IF Running("parse_return_stmt", "end") THEN {"Semi"}
  ELSE IF Running("parse_primary", "paren_end") THEN {"RParen"}
  ELSE IF Running("parse_match_expr", "open") THEN {"LBrace"}
  ELSE {}

\* The Eof token parse() appends: the empty span at the end of the input
EofToken(q) == q.tokens[Len(q.tokens)]

\* What expect(kind) is to make of the parser q that has skipped trivia
Expected(q, kind) ==
  LET token == IF q.pos < Len(q.tokens) THEN q.tokens[q.pos + 1] ELSE EofToken(q)
      event == IF Current(q) = "Eof" THEN <<>> ELSE <<TokenEv(token.kind, token.text)>>
      step == IF Current(q) = "Eof" THEN 0 ELSE 1
  IN IF Current(q) = kind
     THEN [q EXCEPT !.events = @ \o event, !.pos = @ + 1]
     ELSE [q EXCEPT !.errors = Append(@, [message |-> "expected " \o kind,
                                          start |-> token.start, end |-> token.end]),
                    !.events = @ \o <<StartNode("Error")>> \o event \o <<FinishNode>>,
                    !.pos = @ + step]

\* parse("fn f()->i64{let x=1}") in words
MissingSemiAndRBrace ==
  <<"fn", " ", "f", "(", ")", "->", "i64", "{", "let", " ", "x", "=", "1", "}">>

\* C20: expect(kind) skips trivia; then, if the current token is not of that
\* kind, it appends one error "expected <kind>" with the span of the current
\* token (the empty span at the end of the input for Eof), emits an Error node
\* holding that one token (none at Eof) and advances by one token (none at
\* Eof); if the token is of that kind it consumes it and records no error.
\* E.g. fn f()->i64{let x=1} yields "expected Semi" at 19..20 and then
\* "expected RBrace" at 20..20, and nothing else.
C20_ExpectRecovers ==
  /\ \A kind \in Expecting : Expect(p, kind) = Expected(EatTrivia(p), kind)
  /\ (source = MissingSemiAndRBrace /\ run = 1 /\ ParseRootReturned) =>
       p.errors = <<[message |-> "expected Semi", start |-> 19, end |-> 20],
                    [message |-> "expected RBrace", start |-> 20, end |-> 20]>>

\* ------------------------------------------------------------------------
\* The type checker on `if`, on statements and on scopes

\* The `if` expressions of the parsed source that have no else branch: a
\* condition and a then-block, and no `else` token
IfsWithoutElse ==
  {n \in NodesIn(Syntax(parsed)) :
     /\ n.kind = "IfExpr"
     /\ Len(Children(n)) = 2
     /\ \A i \in 1..Len(n.children) : n.children[i].kind # "KwElse"}

\* No identifier under the node: its type does not depend on the scopes
NamesNothing(n) == \A m \in NodesIn(n) : m.kind # "IdentNode"

\* C21: an `if` that has no else branch has the type Unit whatever the type
\* of its then-block, and raises no diagnostic of its own but E0005 on its
\* condition: no E0006 carries its span.
C21_IfWithoutElseIsUnit ==
  (pc = "checked" /\ parsed.errors = <<>>) =>
    \A n \in IfsWithoutElse :
      /\ \A i \in 1..Len(diagnostics) :
           diagnostics[i].code = "E0006" =>
             <<diagnostics[i].start, diagnostics[i].end>> # <<n.start, n.end>>
      /\ NamesNothing(n) => CheckExpr(NewChecker, n).ty = Unit

\* The diagnostics are in the order of their span.start
InSourceOrder(diags) ==
  \A i \in 1..(Len(diags) - 1) : diags[i].start <= diags[i + 1].start

\* C22: the diagnostics the type checker's check returns, and those the effect
\* checker's check returns, are each ordered by non-decreasing span.start.
C22_DiagnosticsInSourceOrder ==
  /\ pc \in {"checked", "effects_checked"} => InSourceOrder(diagnostics)
  /\ pc = "effects_checked" => InSourceOrder(effect_diagnostics)

\* ------------------------------------------------------------------------
\* The emitted code

\* A module has been emitted for a source that parses without errors
Emitted_Ok == pc = "compiled" /\ wasm.tag = "Ok" /\ parsed.errors = <<>>

\* The functions of the source, in order: the i-th is compiled to the i-th
\* entry of the code section
FnDeclsOf(root) == SelectSeq(Children(root), IsFnDecl)

\* The name a let statement binds (an Option): none for the pattern `_`
LetNameOf(stmt) ==
  LET pat == FindKind(Children(stmt), "Pattern")
  IN IF pat = <<>> THEN <<>> ELSE CgFindIdentText(pat[1])

\* The statements `let name = e` of the function, those in the blocks of an
\* `if` included
LetsIn(fn) == {n \in NodesIn(fn) : n.kind = "LetStmt" /\ LetNameOf(n) # <<>>}

\* The number of parameters of the function
ParamCount(fn) ==
  LET list == FindKind(Children(fn), "ParamList")
  IN IF list = <<>> THEN 0 ELSE Len(SelectSeq(Children(list[1]), IsParamNode))

\* The operands of the local.set instructions, in order
LocalSets(ins) ==
  LET IsSet(i) == i[1] = "LocalSet"
      sets == SelectSeq(ins, IsSet)
  IN [k \in 1..Len(sets) |-> sets[k][2]]

\* C23: every `let` of a function, directly in its body or in a block of an
\* `if`, has a local slot of its own after the parameters, in the order of
\* declaration, and is emitted with the local.set of that slot: a function
\* of n parameters and k let statements declares k locals and sets the
\* slots n, n + 1, ..., n + k - 1 in this order.
C23_LetLowering ==
  Emitted_Ok =>
    \A i \in 1..Len(FnDeclsOf(Syntax(parsed))) :
      LET fn == FnDeclsOf(Syntax(parsed))[i]
          n == ParamCount(fn)
          k == Cardinality(LetsIn(fn))
      IN /\ Len(wasm.module.code[i].locals) = k
         /\ LocalSets(wasm.module.code[i].ins) = [j \in 1..k |-> n + j - 1]

\* The function declares a return type: `-> Type` stands in the source
DeclaresReturn(fn) == CgFindReturnType(fn) # <<>>

\* C24: in every emitted module the instructions of each function end with
\* `end`, and `i64.const 0` stands right before that `end` as the default
\* return exactly when the function declares no return type: the body ends
\* with what its statements emit, the default constant if and only if no
\* return type is declared, and `end`.
C24_DefaultReturn ==
  Emitted_Ok =>
    \A i \in 1..Len(FnDeclsOf(Syntax(parsed))) :
      LET fn == FnDeclsOf(Syntax(parsed))[i]
          f == LowerFn(fn)[1]
          ctx == [func_indices |-> FuncIndices(CollectFunctions(Syntax(parsed))),
                  locals |-> f.locals, params |-> f.params]
          stmts == EmitAll([k \in 1..Len(f.body) |-> EmitStmt(ctx, f.body[k])]).ins
      IN wasm.module.code[i].ins =
           stmts \o (IF DeclaresReturn(fn) THEN <<>> ELSE << <<"I64Const", 0>> >>)
                 \o << <<"End">> >>

\* ------------------------------------------------------------------------
\* The formatter on operator trees

RECURSIVE IsOperatorTree(_)
\* An expression built only from identifiers, literals, infix operators and
\* parentheses
IsOperatorTree(node) ==
  /\ node.kind \in {"IdentNode", "LiteralNode", "BinExpr", "ParenExpr"}
  /\ \A i \in 1..Len(Children(node)) : IsOperatorTree(Children(node)[i])
  /\ node.kind = "BinExpr" => FmtBinParts(node) # <<>>
  /\ node.kind = "ParenExpr" => Len(Children(node)) = 1

\* The tail expression of a function whose body is nothing else (an Option)
OnlyTailExpr(fn) ==
  LET block == FindKind(Children(fn), "Block")
      stmts == IF block = <<>> THEN <<>> ELSE StmtsOf(block[1])
  IN IF Len(stmts) = 1 THEN stmts ELSE <<>>

\* The parse is clean and its functions, one at least, are operator trees
OperatorTrees(parse) ==
  /\ parse.errors = <<>>
  /\ Children(parse.green) # <<>>
  /\ \A i \in 1..Len(Children(parse.green)) :
       LET item == Children(parse.green)[i]
       IN /\ item.kind = "FnDecl"
          /\ OnlyTailExpr(item) # <<>>
          /\ IsOperatorTree(OnlyTailExpr(item)[1])

RECURSIVE Shape(_)
\* The tree without its trivia
Shape(e) ==
  IF IsNode(e)
  THEN LET kept == SelectSeq(e.children, LAMBDA c : IsNode(c) \/ ~IsTrivia(c.kind))
       IN [kind |-> e.kind, children |-> [i \in 1..Len(kept) |-> Shape(kept[i])]]
  ELSE [kind |-> e.kind, text |-> e.text]

\* What the formatter writes for the expression below a parent that passes
\* the minimum min_bp, by the rule of the binding powers: a BinExpr in
\* parentheses if and only if its left binding power is less than min_bp, its
\* left operand under its l_bp and its right operand under its r_bp; a
\* ParenExpr always in its parentheses
RECURSIVE ByBindingPower(_, _)
ByBindingPower(node, min_bp) ==
  CASE node.kind = "BinExpr" ->
         LET parts == FmtBinParts(node)
             bp == FmtInfixBindingPower(parts[1].kind)
             inner == ByBindingPower(parts[2], bp[1]) \o <<" ", parts[1].text, " ">>
                      \o ByBindingPower(parts[3], bp[2])
         IN IF bp[1] < min_bp THEN <<"(">> \o inner \o <<")">> ELSE inner
    [] node.kind = "ParenExpr" ->
         <<"(">> \o ByBindingPower(Children(node)[1], 0) \o <<")">>
    [] OTHER -> Finish(FmtExpr(node, min_bp, 0))

\* The minimums a parent can pass
MinBps == 0..13

\* C25: for a function that parses cleanly and whose body is a tail
\* expression of identifiers, literals, infix operators and parentheses, the
\* formatter puts a BinExpr child in parentheses if and only if the child's
\* left binding power is less than the minimum its parent passes (l_bp to the
\* left child, r_bp to the right), prints a ParenExpr with its parentheses,
\* and the formatted text parses, without errors, to a tree of the same shape
\* as the tree of the source, trivia aside.
C25_OperatorTreeFixedPoint ==
  /\ (pc \in {"parsed", "compiled"} /\ run = 1 /\ OperatorTrees(parsed)) =>
       \A i \in 1..Len(Children(parsed.green)) : \A min_bp \in MinBps :
         LET e == OnlyTailExpr(Children(Syntax(parsed))[i])[1]
         IN Finish(FmtExpr(e, min_bp, 0)) = ByBindingPower(e, min_bp)
  /\ (pc = "parsing" /\ run = 2 /\ stack = <<>> /\ OperatorTrees(parsed)) =>
       /\ p.errors = <<>>
       /\ Shape(BuildGreen(p.events)) = Shape(parsed.green)

\* fn f(){(a+b)*c} has been formatted and its text parsed again: the
\* parentheses are kept.
C25_ParenthesizedSum ==
  /\ pc = "parsing" /\ run = 2 /\ stack = <<>>
  /\ source = ParenSource("+", "*")
  /\ OperatorTrees(parsed)
  /\ fmt1.text = <<"fn", " ", "f", "(", ")", " ", "{", "\n", "  ", "(", "a", " ", "+", " ",
                   "b", ")", " ", "*", " ", "c", "\n", "}">>

\* ------------------------------------------------------------------------
\* Statements and tail expressions

StmtLists == {n \in NodesIn(parsed.green) : n.kind = "StmtList"}

ExprStmts == {n \in NodesIn(parsed.green) : n.kind = "ExprStmt"}

\* C26: in every tree produced by parse, with or without errors, a child
\* node of a StmtList that is not an ExprStmt, LetStmt or ReturnStmt (a bare
\* expression, or the Error node that stands for one) is the last child node
\* of the list; no `;` or other token but trivia stands in the list itself,
\* so that an expression followed by `;` is inside an ExprStmt; and every
\* ExprStmt holds exactly one node, that expression, followed by the `;`
\* token as its only token that is not trivia.
C26_TailExpressionLast ==
  pc = "parsed" =>
    /\ \A list \in StmtLists :
         /\ \A i \in 1..Len(Children(list)) :
              Children(list)[i].kind \notin {"ExprStmt", "LetStmt", "ReturnStmt"} =>
                /\ i = Len(Children(list))
                /\ Children(list)[i].kind \in ExprKinds \cup {"Error"}
         /\ \A i \in 1..Len(list.children) :
              IsNode(list.children[i]) \/ IsTrivia(list.children[i].kind)
    /\ \A stmt \in ExprStmts :
         LET tokens == SelectSeq(stmt.children, LAMBDA c : ~IsNode(c) /\ ~IsTrivia(c.kind))
         IN /\ Len(Children(stmt)) = 1
            /\ Children(stmt)[1].kind \in ExprKinds \cup {"Error"}
            /\ Len(tokens) = 1 /\ tokens[1].kind = "Semi"
            /\ \E i \in 1..Len(stmt.children) :
                 /\ stmt.children[i] = Children(stmt)[1]
                 /\ \E j \in (i + 1)..Len(stmt.children) : stmt.children[j] = tokens[1]

\* A parse with errors has left a block with an expression statement and a
\* tail expression after it.
C26_StatementThenTail ==
  /\ pc = "parsed" /\ parsed.errors # <<>>
  /\ \E list \in StmtLists :
       /\ Len(Children(list)) >= 2
       /\ Children(list)[Len(Children(list)) - 1].kind = "ExprStmt"
       /\ Children(list)[Len(Children(list))].kind \in ExprKinds

\* ------------------------------------------------------------------------
\* The operand stack of the emitted code

\* The state of the validation of a body: the types on the operand stack,
\* and for the function and each open `if` the height of the stack at its
\* start and whether the rest of it cannot be reached (after a return)
Valid0 == [ok |-> TRUE, stack |-> <<>>, frames |-> <<[base |-> 0, unreachable |-> FALSE]>>]

Invalid(st) == [st EXCEPT !.ok = FALSE]

Push(st, ty) == [st EXCEPT !.stack = Append(@, ty)]

\* One operand of the type (of any type for "Any") is taken; in code that
\* cannot be reached an operand that is not there is taken as well
Pop(st, ty) ==
  LET frame == st.frames[Len(st.frames)]
  IN IF ~st.ok THEN st
     ELSE IF Len(st.stack) > frame.base
     THEN IF ty = "Any" \/ st.stack[Len(st.stack)] = ty
          THEN [st EXCEPT !.stack = SubSeq(@, 1, Len(@) - 1)]
          ELSE Invalid(st)
     ELSE IF frame.unreachable THEN st ELSE Invalid(st)

RECURSIVE PopAll(_, _)
PopAll(st, tys) ==
  IF tys = <<>> THEN st
  ELSE PopAll(Pop(st, tys[Len(tys)]), SubSeq(tys, 1, Len(tys) - 1))

\* The stack is at the height at which the innermost frame began
AtBase(st) == Len(st.stack) = st.frames[Len(st.frames)].base

\* The validation of one instruction of a function with the local types
\* (parameters first) in a module of the function types
Validate1(st, ins, local_types, types) ==
  LET op == ins[1]
      frame == st.frames[Len(st.frames)]
  IN IF ~st.ok THEN st
     ELSE CASE op = "I64Const" -> Push(st, "I64")
       [] op = "I32Const" -> Push(st, "I32")
       [] op = "LocalGet" ->
            IF ins[2] < Len(local_types) THEN Push(st, local_types[ins[2] + 1]) ELSE Invalid(st)
       [] op = "LocalSet" ->
            IF ins[2] < Len(local_types) THEN Pop(st, local_types[ins[2] + 1]) ELSE Invalid(st)
       [] op = "Drop" -> Pop(st, "Any")
       [] op \in {"I64Add", "I64Sub", "I64Mul", "I64DivS"} ->
            Push(PopAll(st, <<"I64", "I64">>), "I64")
       [] op \in {"I64Eq", "I64Ne", "I64LtS", "I64LeS", "I64GtS", "I64GeS"} ->
            Push(PopAll(st, <<"I64", "I64">>), "I32")
       [] op = "Call" ->
            IF ins[2] < Len(types)
            THEN Push(PopAll(st, types[ins[2] + 1].params), "I64")
            ELSE Invalid(st)
       [] op = "Return" ->
            LET popped == Pop(st, "I64")
            IN [popped EXCEPT !.stack = SubSeq(@, 1, frame.base),
                              !.frames[Len(st.frames)].unreachable = TRUE]
       [] op = "If" ->
            LET popped == Pop(st, "I32")
            IN [popped EXCEPT !.frames = Append(@, [base |-> Len(popped.stack),
                                                    unreachable |-> FALSE])]
       [] op = "Else" ->
            IF Len(st.frames) > 1 /\ AtBase(st)
            THEN [st EXCEPT !.frames[Len(st.frames)].unreachable = FALSE]
            ELSE Invalid(st)
       [] op = "End" ->
            IF Len(st.frames) > 1
            THEN IF AtBase(st) THEN [st EXCEPT !.frames = SubSeq(@, 1, Len(@) - 1)]
                 ELSE Invalid(st)
            ELSE IF st.stack = <<"I64">> \/ (frame.unreachable /\ st.stack = <<>>)
            THEN [st EXCEPT !.frames = <<>>]
            ELSE Invalid(st)
       [] OTHER -> Invalid(st)

RECURSIVE ValidateFrom(_, _, _, _)
ValidateFrom(st, ins, local_types, types) ==
  IF ins = <<>> \/ ~st.ok \/ st.frames = <<>> THEN [st |-> st, rest |-> ins]
  ELSE ValidateFrom(Validate1(st, Head(ins), local_types, types), Tail(ins),
                    local_types, types)

\* The body is valid: every instruction finds its operands, every `if`
\* leaves the stack as it found it, every return finds an i64, and the final
\* `end`, the last instruction, finds exactly one i64 or cannot be reached
StackValid(code, type, types) ==
  LET done == ValidateFrom(Valid0, code.ins, type.params \o code.locals, types)
  IN done.st.ok /\ done.st.frames = <<>> /\ done.rest = <<>>

\* C27: whenever compile_to_wasm returns Ok, every function body of the
\* module leaves exactly one i64 on the operand stack at its final `end` on
\* every path that does not return, and every return finds an i64.
C27_StackValid ==
  Emitted_Ok =>
    \A i \in 1..Len(wasm.module.code) :
      StackValid(wasm.module.code[i], wasm.module.types[i], wasm.module.types)

\* ------------------------------------------------------------------------
\* jalmt

\* cmd_build on the parse of src/main.jalm and the diagnostics of the two
\* checkers
CmdBuild(parse, tc, ec) ==
  IF parse.errors # <<>> THEN "Err: parse errors in src/main.jalm"
  ELSE IF tc # <<>> \/ ec # <<>> THEN "Err: check failed for src/main.jalm"
  ELSE "Ok"

\* The function declares a return type and its body is `return e;` with a
\* literal e of that type, and nothing else
ReturnsLiteralOfDeclaredType(fn) ==
  LET block == FindKind(Children(fn), "Block")
      stmts == IF block = <<>> THEN <<>> ELSE StmtsOf(block[1])
      exprs == IF Len(stmts) = 1 THEN SelectSeq(Children(stmts[1]), IsExprNode) ELSE <<>>
  IN /\ FindReturnType(fn) # <<>>
     /\ Len(stmts) = 1 /\ stmts[1].kind = "ReturnStmt"
     /\ Len(exprs) = 1 /\ exprs[1].kind = "LiteralNode"
     /\ LiteralType(exprs[1]) = FindReturnType(fn)[1]

\* C28: a function that declares the return type T and whose body ends in
\* `return e;` with e of type T, without a tail expression, raises no type
\* diagnostic; so the src/main.jalm that `new` writes has no diagnostics and
\* `build` succeeds on it.
C28_ReturnTerminatedChecks ==
  (pc = "effects_checked" /\ parsed.errors = <<>>) =>
    /\ (\A i \in 1..Len(Children(Syntax(parsed))) :
          /\ Children(Syntax(parsed))[i].kind = "FnDecl"
          /\ ReturnsLiteralOfDeclaredType(Children(Syntax(parsed))[i]))
         => diagnostics = <<>>
    /\ source = ScaffoldedMain => CmdBuild(parsed, diagnostics, effect_diagnostics) = "Ok"

\* C29: two callers inside jalm_alloc at the same time, their loads of NEXT,
\* bounds checks and stores of NEXT interleaved in any order: the regions
\* [p, p + align8(max(size, 1))) handed out do not overlap, and NEXT is at
\* or beyond the end of every one of them.
C29_InterleavedAllocsDisjoint ==
  /\ \A i \in 1..Len(regions), j \in 1..Len(regions) :
       i # j => \/ regions[i].ptr + Entitled(regions[i].size) <= regions[j].ptr
                \/ regions[j].ptr + Entitled(regions[j].size) <= regions[i].ptr
  /\ \A i \in 1..Len(regions) : regions[i].ptr + Entitled(regions[i].size) <= NEXT

\* The names of the parameters of the function
ParamNames(fn) ==
  LET list == FindKind(Children(fn), "ParamList")
      params == IF list = <<>> THEN <<>> ELSE SelectSeq(Children(list[1]), IsParamNode)
  IN {FindIdentIn(params[i])[1] : i \in {i \in 1..Len(params) : FindIdentIn(params[i]) # <<>>}}

\* The names the statements bind with `let`
LetNames(stmts) ==
  {LetName(stmts[i])[1] :
     i \in {i \in 1..Len(stmts) : stmts[i].kind = "LetStmt" /\ LetName(stmts[i]) # <<>>}}

\* The statements of the body of the function
BodyStmts(fn) ==
  LET block == FindKind(Children(fn), "Block")
  IN IF block = <<>> THEN <<>> ELSE StmtsOf(block[1])

\* The names bound anywhere in the function
BoundIn(fn) ==
  ParamNames(fn)
  \cup {LetName(n)[1] : n \in {n \in NodesIn(fn) : n.kind = "LetStmt" /\ LetName(n) # <<>>}}

\* The blocks nested in a statement `e;` of a body: e when it is a block, and
\* the blocks of e when it is an `if`
NestedBlocks(stmt) ==
  LET e == IF stmt.kind = "ExprStmt" THEN Find(Children(stmt), IsExprNode) ELSE <<>>
      IsBlock(n) == n.kind = "Block"
  IN IF e = <<>> THEN <<>>
     ELSE IF e[1].kind = "Block" THEN e
     ELSE IF e[1].kind = "IfExpr" THEN SelectSeq(SubSeq(Children(e[1]), 2, Len(Children(e[1]))), IsBlock)
     ELSE <<>>

\* The names bound by `let` in the nested blocks of the statements before the
\* last, and neither as a parameter nor by a `let` of the body itself
NestedLetNames(fn) ==
  LET stmts == BodyStmts(fn)
      blocks == Flatten([i \in 1..(Len(stmts) - 1) |-> NestedBlocks(stmts[i])])
  IN (UNION {LetNames(StmtsOf(blocks[i])) : i \in 1..Len(blocks)})
     \ (ParamNames(fn) \cup LetNames(stmts))

\* The identifier a function ends in, as its tail expression or as the value
\* of its last `return` (an Option)
LastIdent(fn) ==
  LET stmts == BodyStmts(fn)
      last_stmt == IF stmts = <<>> THEN <<>> ELSE <<stmts[Len(stmts)]>>
      value == IF last_stmt = <<>> THEN <<>>
               ELSE IF last_stmt[1].kind = "ReturnStmt"
               THEN Find(Children(last_stmt[1]), IsExprNode)
               ELSE last_stmt
  IN IF value # <<>> /\ value[1].kind = "IdentNode" /\ FindIdentIn(value[1]) # <<>>
     THEN value ELSE <<>>

\* E0001 is among the diagnostics for the identifier
Undefined(ident) ==
  \E i \in 1..Len(diagnostics) :
    diagnostics[i] = [code |-> "E0001", message |-> "undefined variable",
                      start |-> ident.start, end |-> ident.end,
                      expected |-> <<>>, actual |-> FindIdentIn(ident)]

\* C30: after each function the checker has the one, empty, global scope and
\* the current_return it started with; the diagnostics of a function are
\* those it has when checked alone, whatever the functions before it bind;
\* so an identifier a function ends in that is bound nowhere in that function
\* is reported with E0001, and one bound by a `let` inside a nested block of
\* an earlier statement of the same function is not.
C30_ScopeIsolation ==
  pc = "checked" =>
    LET fns == FnDeclsOf(Syntax(parsed))
    IN /\ \A k \in 0..Len(fns) :
            LET c == CheckItemsOfRoot(NewChecker, SubSeq(fns, 1, k))
            IN c.scopes = << <<>> >> /\ c.current_return = Unit
       /\ diagnostics = Flatten([i \in 1..Len(fns) |-> CheckFn(NewChecker, fns[i]).diagnostics])
       /\ \A i \in 1..Len(fns) :
            LastIdent(fns[i]) # <<>> =>
              LET ident == LastIdent(fns[i])[1]
                  name == FindIdentIn(ident)[1]
              IN /\ name \notin BoundIn(fns[i]) => Undefined(ident)
                 /\ name \in NestedLetNames(fns[i]) => ~Undefined(ident)

\* The first function binds a name by a `let` inside the block of an `if`
\* and ends in it; the second ends in the same name, binds nothing, and gets
\* the only diagnostic.
C30_SeenAfterBlockNotInNextFunction ==
  /\ pc = "checked"
  /\ parsed.errors = <<>>
  /\ LET fns == FnDeclsOf(Syntax(parsed))
     IN /\ Len(fns) = 2
        /\ LastIdent(fns[1]) # <<>> /\ LastIdent(fns[2]) # <<>>
        /\ FindIdentIn(LastIdent(fns[1])[1]) = FindIdentIn(LastIdent(fns[2])[1])
        /\ FindIdentIn(LastIdent(fns[1])[1])[1] \in NestedLetNames(fns[1])
        /\ BoundIn(fns[2]) = {}
        /\ ~Undefined(LastIdent(fns[1])[1])
        /\ Undefined(LastIdent(fns[2])[1])
        /\ Len(diagnostics) = 1

====
